---------------------------- MODULE Spec2Model ----------------------------
(***************************************************************************)
(* Model of the ETL batch pipeline: the statement normalizer                *)
(* (Financilas.py), the profile normalizer (Summary.py), their batch        *)
(* drivers with cadence commits, and the upsert into the relational tables. *)
(*                                                                         *)
(* Text is modelled as a sequence of one-character strings, so that         *)
(* slicing, splitting and date parsing are computed, not assumed.           *)
(* An optional value (Python None or a string) is a record                  *)
(* [some |-> BOOLEAN, s |-> text].                                          *)
(***************************************************************************)
EXTENDS Integers, Sequences, FiniteSets, TLC

VARIABLES
    pc,            \* position of the running program
    arg,           \* input of the normalizer under check (symbol, payload)
    ret,           \* its result
    driver,        \* "fin" (Financilas.main) or "sum" (Summary.main)
    cadence,       \* COMMIT_EVERY_SYMBOLS, read from the environment
    staging,       \* the source table yahoo_financials: identifier -> row
    symbols,       \* the identifier list returned by get_all_symbols
    i,             \* number of loop iterations finished (the last 1-based i)
    total_rows,    \* running total of rows upserted
    errors,        \* companies whose iteration raised
    work,          \* rows of the target table as the open transaction sees them
    durable,       \* rows of the target table that are committed
    rows,          \* the batch handed to the last executemany
    attempted,     \* identifiers bound by the loop so far, in order
    outcome,       \* how each finished iteration ended, in order
    commitlog,     \* conn.commit() calls of this run: loop position, 0 = final
    rollbacks,     \* conn.rollback() calls of this run
    failed_rows,   \* rows applied by an executemany that then raised
    faults,        \* statements the database server has failed so far
    clock,         \* UTC time in ticks
    run,           \* 1 for the first run over the staging store, 2 for a rerun
    first_run      \* what the first run left behind: [table, errors, at]

drv_vars == <<driver, cadence, staging, symbols, i, total_rows, errors, work,
              durable, rows, attempted, outcome, commitlog, rollbacks, failed_rows, faults,
              clock, run, first_run>>

vars == <<pc, arg, ret, drv_vars>>

-----------------------------------------------------------------------------
(* Bounds of the model (not program constants).                             *)

MaxDateGroups == 2      \* date-groups per periodicity block in generated payloads

TicksPerSecond == 2     \* clock ticks in one second of the stored DATETIME

MaxSymbols == 3         \* rows of the staging store

MaxCadence == 3         \* largest COMMIT_EVERY_SYMBOLS tried

MaxFaults == 2          \* statements the database server may fail in a behaviour

MaxClock == 3           \* ticks the UTC clock advances in a behaviour

MaxRerunSymbols == 2    \* most staging rows of a store that is processed twice

MaxItems == 2           \* most elements of a list or tuple handed to clean_json

-----------------------------------------------------------------------------
(* Python values.                                                           *)

None == [some |-> FALSE, s |-> << >>]

Str(s) == [some |-> TRUE, s |-> s]

\* Python truthiness of an optional string: None and "" are falsy.
Truthy(x) == x.some /\ x.s # << >>

\* Python `a or b`.
PyOr(a, b) == IF Truthy(a) THEN a ELSE b

Min(a, b) == IF a <= b THEN a ELSE b

RECURSIVE Concat(_)
\* Concatenation of a sequence of sequences.
Concat(ss) == IF ss = << >> THEN << >> ELSE Head(ss) \o Concat(Tail(ss))

-----------------------------------------------------------------------------
(* Date strings.                                                            *)

DigitChars == <<"0", "1", "2", "3", "4", "5", "6", "7", "8", "9">>

DigitSet == {DigitChars[k] : k \in 1..10}

DigitValues == [c \in DigitSet |-> (CHOOSE k \in 1..10 : DigitChars[k] = c) - 1]

IsDigit(c) == c \in DigitSet

DigitVal(c) == DigitValues[c]

IsSpace(c) == c \in {" ", "\t", "\n"}

D2(n) == <<DigitChars[(n \div 10) + 1], DigitChars[(n % 10) + 1]>>

D4(n) == D2(n \div 100) \o D2(n % 100)

\* date.isoformat(): "YYYY-MM-DD".
IsoDate(y, m, d) == D4(y) \o <<"-">> \o D2(m) \o <<"-">> \o D2(d)

\* pd.Timestamp.isoformat(sep=" "): "YYYY-MM-DD 00:00:00", the key the
\* staging loader writes for a statement column.
_str_key(y, m, d) ==
    IsoDate(y, m, d) \o <<" ", "0", "0", ":", "0", "0", ":", "0", "0">>

IsLeap(y) == (y % 4 = 0 /\ y % 100 # 0) \/ y % 400 = 0

DaysInMonth(y, m) ==
    IF m = 2 THEN (IF IsLeap(y) THEN 29 ELSE 28)
    ELSE IF m \in {4, 6, 9, 11} THEN 30 ELSE 31

NoDate == [ok |-> FALSE, year |-> 0, month |-> 0, day |-> 0]

\* datetime(y, m, d): ValueError when the day is not in the month.
MkDate(y, m, d) ==
    IF y >= 1 /\ m \in 1..12 /\ d >= 1 /\ d <= DaysInMonth(y, m)
    THEN [ok |-> TRUE, year |-> y, month |-> m, day |-> d]
    ELSE NoDate

\* The %m directive: 1[0-2] | 0[1-9] | [1-9].  0 when t is no month token.
MonthTok(t) ==
    IF Len(t) = 1 /\ IsDigit(t[1]) /\ DigitVal(t[1]) >= 1 THEN DigitVal(t[1])
    ELSE IF Len(t) = 2 /\ IsDigit(t[1]) /\ IsDigit(t[2])
            /\ 10 * DigitVal(t[1]) + DigitVal(t[2]) \in 1..12
         THEN 10 * DigitVal(t[1]) + DigitVal(t[2])
         ELSE 0

\* The %d directive: 3[01] | [12]\d | 0[1-9] | [1-9] | " "[1-9].
DayTok(t) ==
    IF Len(t) = 1 /\ IsDigit(t[1]) /\ DigitVal(t[1]) >= 1 THEN DigitVal(t[1])
    ELSE IF Len(t) = 2 /\ t[1] = " " /\ IsDigit(t[2]) /\ DigitVal(t[2]) >= 1
         THEN DigitVal(t[2])
    ELSE IF Len(t) = 2 /\ IsDigit(t[1]) /\ IsDigit(t[2])
            /\ 10 * DigitVal(t[1]) + DigitVal(t[2]) \in 1..31
         THEN 10 * DigitVal(t[1]) + DigitVal(t[2])
         ELSE 0

\* datetime.strptime(t, "%Y-%m-%d"): four digits, "-", a month token, "-",
\* a day token, and nothing left over.
strptime(t) ==
    IF Len(t) < 8 \/ Len(t) > 10 THEN NoDate
    ELSE IF ~(\A k \in 1..4 : IsDigit(t[k])) \/ t[5] # "-" THEN NoDate
    ELSE LET y  == 1000 * DigitVal(t[1]) + 100 * DigitVal(t[2])
                   + 10 * DigitVal(t[3]) + DigitVal(t[4])
             ml == IF t[7] = "-" THEN 1 ELSE 2
             m  == MonthTok(SubSeq(t, 6, 5 + ml))
             d  == DayTok(SubSeq(t, 7 + ml, Len(t)))
         IN  IF Len(t) < 7 + ml \/ t[6 + ml] # "-" \/ m = 0 \/ d = 0
             THEN NoDate
             ELSE MkDate(y, m, d)

RECURSIVE SkipSpaces(_)
SkipSpaces(s) ==
    IF s # << >> /\ IsSpace(Head(s)) THEN SkipSpaces(Tail(s)) ELSE s

RECURSIVE TakeWord(_)
TakeWord(s) ==
    IF s = << >> \/ IsSpace(Head(s)) THEN << >>
    ELSE <<Head(s)>> \o TakeWord(Tail(s))

\* dt_str.split()[0]: the first whitespace-delimited token; << >> stands for
\* the IndexError of an empty split.
FirstToken(s) == TakeWord(SkipSpaces(s))

\* datetime.fromisoformat(tok) for a date-only token: exactly YYYY-MM-DD.
fromisoformat(tok) ==
    IF Len(tok) = 10 /\ tok[5] = "-" /\ tok[8] = "-"
       /\ \A k \in {1, 2, 3, 4, 6, 7, 9, 10} : IsDigit(tok[k])
    THEN MkDate(1000 * DigitVal(tok[1]) + 100 * DigitVal(tok[2])
                  + 10 * DigitVal(tok[3]) + DigitVal(tok[4]),
                10 * DigitVal(tok[6]) + DigitVal(tok[7]),
                10 * DigitVal(tok[9]) + DigitVal(tok[10]))
    ELSE NoDate

\* The two-stage parse of a date-group key.
ParseDateKey(dt_str) ==
    LET first == strptime(SubSeq(dt_str, 1, Min(10, Len(dt_str))))
    IN  IF first.ok THEN first ELSE fromisoformat(FirstToken(dt_str))

-----------------------------------------------------------------------------
(* The raw payload (the JSON value of one staging row, decoded).            *)
(*   payload  = [kind, info, top, summary, profile, cashflow,               *)
(*               incomestatement, balancesheet]                             *)
(*   top      = the top-level keys read when the payload is itself the info *)
(*              mapping (no "info" wrapper)                                 *)
(*   section  = [kind, yearly, quarterly]         kind: "map" or "list"     *)
(*   block    = [kind, groups]                    groups: ordered mapping   *)
(*   group    = [key |-> date string, metrics]                              *)
(*   metrics  = [kind, items]                     items: ordered mapping    *)
(*   item     = [metric |-> name, val |-> [t, v]]                           *)
(* A kind other than "map" is a truthy JSON value that is no mapping (a     *)
(* non-empty list); "null" is JSON null or an absent key.                   *)

NullVal == [t |-> "null", v |-> 0]

Num(n) == [t |-> "num", v |-> n]

NoMetrics == [kind |-> "null", items |-> << >>]

NoBlock == [kind |-> "null", groups |-> << >>]

NoSection == [kind |-> "null", yearly |-> NoBlock, quarterly |-> NoBlock]

NoInfo ==
    [kind |-> "null",
     symbol |-> None, ticker |-> None,
     longName |-> None, shortName |-> None, displayName |-> None, name |-> None,
     longBusinessSummary |-> None,
     sector |-> None, sectorDisp |-> None,
     industry |-> None, industryDisp |-> None,
     website |-> None, irWebsite |-> None,
     fullTimeEmployees |-> NullVal,
     city |-> None, state |-> None, province |-> None, country |-> None,
     currency |-> None, financialCurrency |-> None, financialcurrency |-> None]

\* The empty mapping {}.
EmptyPayload ==
    [kind |-> "map", info |-> NoInfo, top |-> NoInfo,
     summary |-> None, profile |-> NoInfo,
     cashflow |-> NoSection, incomestatement |-> NoSection,
     balancesheet |-> NoSection]

\* A decoded JSON value that is no mapping: "list", "num" (truthy) or "null"
\* (None and the falsy values [], 0, "").
NonMapping(k) == [EmptyPayload EXCEPT !.kind = k]

\* `x or {}` followed by an attribute access (.get / .items): a truthy value
\* that is no mapping raises AttributeError.
RaisesAttr(x) == x.kind \notin {"map", "null"}

-----------------------------------------------------------------------------
(* Financilas.py: the statement normalizer.                                 *)

\* folder_map, in the iteration order of the dict literal.
folder_map == <<[folder |-> "cashflow", stype |-> "CF"],
                [folder |-> "incomestatement", stype |-> "IS"],
                [folder |-> "balancesheet", stype |-> "BS"]>>

Freqs == <<"yearly", "quarterly">>

SectionOf(info_json, folder) ==
    CASE folder = "cashflow" -> info_json.cashflow
      [] folder = "incomestatement" -> info_json.incomestatement
      [] OTHER -> info_json.balancesheet

BlockOf(section, freq) ==
    IF freq = "yearly" THEN section.yearly ELSE section.quarterly

\* A variant that drops the "- 1" (March would fall in quarter 2).
quarter_from_date_nominus(d) == d.month \div 3 + 1

quarter_from_date(d) == (d.month - 1) \div 3 + 1

\* period = 4 if freq == "yearly" else quarter_from_date(d)
PeriodOf(freq, d) == IF freq = "yearly" THEN 4 ELSE quarter_from_date(d)

\* The value written into the tuple: a NaN or infinite float becomes None.
\* A coercion that knows NaN only.
CoerceVal_nanonly(val) == IF val.t = "nan" THEN NullVal ELSE val

CoerceVal(val) == IF val.t \in {"nan", "inf"} THEN NullVal ELSE val

\* Whether the inner loop appends a tuple for this metric/value pair.
Survives(item) == item.metric # "" /\ item.val.t \notin {"dict", "list"}

RECURSIVE MetricRows(_, _, _, _, _, _)
\* The tuples appended for the items of one date-group.
MetricRows(symbol, info, stype, freq, d, items) ==
    IF items = << >> THEN << >>
    ELSE LET it == Head(items)
             row == [stock |-> symbol,
                     yf_name |-> PyOr(PyOr(info.longName, info.shortName),
                                      info.displayName),
                     statement_type |-> stype,
                     metric |-> it.metric,
                     stockcurrency |-> info.currency,
                     financialcurrency |-> PyOr(info.financialCurrency,
                                                info.financialcurrency),
                     calendar_year |-> d.year,
                     period |-> PeriodOf(freq, d),
                     value |-> CoerceVal(it.val),
                     date |-> [year |-> d.year, month |-> d.month, day |-> d.day]]
         IN  (IF Survives(it) THEN <<row>> ELSE << >>)
             \o MetricRows(symbol, info, stype, freq, d, Tail(items))

\* One date-group: skipped when its key does not parse; AttributeError when
\* the key parses and the metrics value is truthy but no mapping.
GroupResult(symbol, info, stype, freq, g) ==
    LET d == ParseDateKey(g.key)
    IN  IF ~d.ok THEN [raised |-> FALSE, out |-> << >>]
        ELSE IF RaisesAttr(g.metrics) THEN [raised |-> TRUE, out |-> << >>]
        ELSE [raised |-> FALSE,
              out |-> MetricRows(symbol, info, stype, freq, d, g.metrics.items)]

RECURSIVE GroupsResult(_, _, _, _, _)
GroupsResult(symbol, info, stype, freq, groups) ==
    IF groups = << >> THEN [raised |-> FALSE, out |-> << >>]
    ELSE LET h == GroupResult(symbol, info, stype, freq, Head(groups))
             t == GroupsResult(symbol, info, stype, freq, Tail(groups))
         IN  [raised |-> h.raised \/ t.raised, out |-> h.out \o t.out]

\* One (folder, freq) pair of the two outer loops.
BlockResult(symbol, info_json, fm, freq) ==
    LET section == SectionOf(info_json, fm.folder)
    IN  IF RaisesAttr(section) THEN [raised |-> TRUE, out |-> << >>]
        ELSE LET block == IF section.kind = "null" THEN NoBlock
                          ELSE BlockOf(section, freq)
             IN  IF RaisesAttr(block) THEN [raised |-> TRUE, out |-> << >>]
                 ELSE GroupsResult(symbol, info_json.info, fm.stype, freq,
                                   block.groups)

\* normalize_financials(symbol, info_json): [raised, out].  When an exception
\* is raised nothing is returned to the caller, so out is empty.
normalize_financials(symbol, info_json) ==
    LET parts == [k \in 1..6 |->
                    BlockResult(symbol, info_json,
                                folder_map[((k - 1) \div 2) + 1],
                                Freqs[((k - 1) % 2) + 1])]
        raised == \/ RaisesAttr(info_json)
                  \/ RaisesAttr(info_json.info)
                  \/ \E k \in 1..6 : parts[k].raised
    IN  [raised |-> raised,
         out |-> IF raised THEN << >> ELSE Concat([k \in 1..6 |-> parts[k].out])]

\* The natural key of a line item (the PRIMARY KEY of table financials).
FinKey(r) == <<r.stock, r.statement_type, r.metric, r.date>>

-----------------------------------------------------------------------------
(* parse_json_value (Financilas.py and Summary.py, the same code).          *)
(* A Python str is [kind |-> "str", decodes, v, alt_decodes, alt]: whether  *)
(* json.loads accepts it and the value it then yields, and the same for the *)
(* second attempt on the unquoted, unescaped text.                          *)

JsonText(v) ==
    [kind |-> "str", decodes |-> TRUE, v |-> v,
     alt_decodes |-> FALSE, alt |-> NonMapping("null")]

\* Text json.loads rejects but whose unescaped form is the encoding of v.
EscapedText(v) ==
    [kind |-> "str", decodes |-> FALSE, v |-> NonMapping("null"),
     alt_decodes |-> TRUE, alt |-> v]

Undecodable ==
    [kind |-> "str", decodes |-> FALSE, v |-> NonMapping("null"),
     alt_decodes |-> FALSE, alt |-> NonMapping("null")]

\* bytes or bytearray holding the UTF-8 encoding of text.
Bytes(text) == [EmptyPayload EXCEPT !.kind = "bytes", !.info = text]

\* j.decode("utf-8", errors="replace") of bytes; anything else as it is.
Decoded(j) == IF j.kind = "bytes" THEN j.info ELSE j

\* The two json.loads attempts on a str; any other value is kept.
FirstLoads(j) ==
    IF j.kind = "str"
    THEN IF j.decodes THEN j.v
         ELSE IF j.alt_decodes THEN j.alt ELSE EmptyPayload
    ELSE j

\* `if not isinstance(obj, dict)`: one more json.loads, which raises for
\* anything but a str that is JSON.
SecondLoads(obj) ==
    IF obj.kind = "map" THEN obj
    ELSE IF obj.kind = "str" /\ obj.decodes THEN obj.v
    ELSE EmptyPayload

parse_json_value(j) == SecondLoads(FirstLoads(Decoded(j)))

-----------------------------------------------------------------------------
(* Summary.py: text cleaning and the profile normalizer.                    *)

TextLimit == 200000

UpperChars == <<"A", "B", "C", "D", "E", "F", "G", "H", "I", "J", "K", "L", "M", "N", "O", "P", "Q", "R", "S", "T", "U", "V", "W", "X", "Y", "Z">>

LowerChars == <<"a", "b", "c", "d", "e", "f", "g", "h", "i", "j", "k", "l", "m", "n", "o", "p", "q", "r", "s", "t", "u", "v", "w", "x", "y", "z">>

UpperSet == {UpperChars[k] : k \in 1..26}

LowerSet == {LowerChars[k] : k \in 1..26}

LowerOf == [c \in UpperSet |-> LowerChars[CHOOSE k \in 1..26 : UpperChars[k] = c]]

\* str.lower() of one character (re.IGNORECASE compares this way).
Lower(c) == IF c \in UpperSet THEN LowerOf[c] ELSE c

\* A character of the regex class \w.
IsWord(c) == c \in DigitSet \/ c = "_" \/ c \in LowerSet \/ c \in UpperSet

RECURSIVE RStrip(_)
RStrip(t) ==
    IF t # << >> /\ IsSpace(t[Len(t)]) THEN RStrip(SubSeq(t, 1, Len(t) - 1))
    ELSE t

\* str.strip()
Strip(t) == RStrip(SkipSpaces(t))

RECURSIVE CollapseWS(_)
\* _WS.sub(" ", t): every whitespace run becomes one space.
CollapseWS(t) ==
    IF t = << >> THEN << >>
    ELSE IF IsSpace(Head(t)) THEN <<" ">> \o CollapseWS(SkipSpaces(t))
    ELSE <<Head(t)>> \o CollapseWS(Tail(t))

clean_text(x) ==
    IF ~Truthy(x) THEN None
    ELSE LET t == CollapseWS(Strip(x.s))
         IN  Str(IF Len(t) > TextLimit THEN SubSeq(t, 1, TextLimit) ELSE t)


\* Whether the lower-cased text t holds pat at position k, with a word
\* boundary (\b) before it.
MatchAt(t, k, pat) ==
    /\ k + Len(pat) - 1 <= Len(t)
    /\ \A q \in 1..Len(pat) : Lower(t[k + q - 1]) = pat[q]
    /\ (k = 1 \/ ~IsWord(t[k - 1]))

RECURSIVE TakeWhileNot(_, _)
\* The longest prefix of t with no character of the set stop.
TakeWhileNot(t, stop) ==
    IF t = << >> \/ Head(t) \in stop THEN << >>
    ELSE <<Head(t)>> \o TakeWhileNot(Tail(t), stop)

RECURSIVE SplitOn(_, _)
\* str.split(sep) for a one-character separator.
SplitOn(t, sep) ==
    LET h == TakeWhileNot(t, {sep})
    IN  IF Len(h) = Len(t) THEN <<h>>
        ELSE <<h>> \o SplitOn(SubSeq(t, Len(h) + 2, Len(t)), sep)

RECURSIVE JoinWith(_, _)
\* sep.join(parts)
JoinWith(parts, sep) ==
    IF Len(parts) = 1 THEN Head(parts)
    ELSE Head(parts) \o sep \o JoinWith(Tail(parts), sep)

_RE_FOUNDED == <<"f", "o", "u", "n", "d", "e", "d", " ", "i", "n", " ">>

_RE_FORMER == <<"f", "o", "r", "m", "e", "r", "l", "y", " ", "k", "n", "o", "w", "n", " ", "a", "s", " ">>

_RE_HQ == <<"h", "e", "a", "d", "q", "u", "a", "r", "t", "e", "r", "e", "d", " ", "i", "n", " ">>

\* Start positions at which _RE_FOUNDED matches: the phrase, four digits and
\* a word boundary after them.
FoundedAt(t) ==
    {k \in 1..Len(t) :
        LET e == k + Len(_RE_FOUNDED)
        IN  /\ MatchAt(t, k, _RE_FOUNDED)
            /\ e + 3 <= Len(t)
            /\ \A q \in e..(e + 3) : IsDigit(t[q])
            /\ (e + 3 = Len(t) \/ ~IsWord(t[e + 4]))}

\* Start positions at which pat is followed by at least one character outside
\* stop (the group ([^...]+) of _RE_FORMER and _RE_HQ).
PhraseAt(t, pat, stop) ==
    {k \in 1..Len(t) :
        /\ MatchAt(t, k, pat)
        /\ k + Len(pat) <= Len(t)
        /\ t[k + Len(pat)] \notin stop}

MinOf(S) == CHOOSE x \in S : \A y \in S : x <= y

\* The text captured by the group of the leftmost match.
Captured(t, pat, stop) ==
    LET k == MinOf(PhraseAt(t, pat, stop))
    IN  TakeWhileNot(SubSeq(t, k + Len(pat), Len(t)), stop)

RECURSIVE DigitsValue(_, _)
\* int() of a digit string, most significant digit first.
DigitsValue(t, acc) ==
    IF t = << >> THEN acc
    ELSE DigitsValue(Tail(t), 10 * acc + DigitVal(Head(t)))

NoExtract ==
    [founded |-> NullVal, former |-> None,
     city |-> None, state |-> None, country |-> None]

\* int(m.group(1)) of the leftmost match at(s) of _RE_FOUNDED.
FoundedFrom(t, at) ==
    IF at = {} THEN NullVal
    ELSE Num(DigitsValue(SubSeq(t, MinOf(at) + Len(_RE_FOUNDED),
                                MinOf(at) + Len(_RE_FOUNDED) + 3), 0))

\* clean_text(m.group(1)) of _RE_FORMER.
FormerFrom(t) ==
    IF PhraseAt(t, _RE_FORMER, {".", ",", ";"}) = {} THEN None
    ELSE clean_text(Str(Captured(t, _RE_FORMER, {".", ",", ";"})))

\* [p.strip() for p in loc.split(",")]
StripEach(sp) == [k \in 1..Len(sp) |-> Strip(sp[k])]

\* One part: city; two: city, state; more: the rest joined is the country.
LocationFrom(parts) ==
    [city |-> Str(parts[1]),
     state |-> IF Len(parts) < 2 THEN None ELSE Str(parts[2]),
     country |-> IF Len(parts) < 3 THEN None
                 ELSE Str(JoinWith(SubSeq(parts, 3, Len(parts)), <<",", " ">>))]

HeadquartersFrom(t) ==
    IF PhraseAt(t, _RE_HQ, {"."}) = {}
    THEN [city |-> None, state |-> None, country |-> None]
    ELSE LocationFrom(StripEach(SplitOn(Strip(Captured(t, _RE_HQ, {"."})), ",")))

Extracted(founded, former, loc) ==
    [founded |-> founded, former |-> former,
     city |-> loc.city, state |-> loc.state, country |-> loc.country]

extract_from_summary(summary) ==
    IF ~Truthy(summary) THEN NoExtract
    ELSE Extracted(FoundedFrom(summary.s, FoundedAt(summary.s)),
                   FormerFrom(summary.s), HeadquartersFrom(summary.s))

\* employees -> int: a string keeps its digits (none left: None), a number
\* is truncated unless NaN or infinite, anything else is None.
EmployeesOf(e) ==
    IF e.t = "str"
    THEN LET ds == SelectSeq(e.s, IsDigit)
         IN  IF ds = << >> THEN NullVal ELSE Num(DigitsValue(ds, 0))
    ELSE IF e.t = "num" THEN Num(e.v)
    ELSE NullVal

\* A format that keeps the fraction of the second ("%H:%M:%S.%f").
FormatNow_fraction(now) == now

\* utcnow().strftime("%Y-%m-%d %H:%M:%S"): the clock cut to whole seconds.
FormatNow(now) == now \div TicksPerSecond

\* An enrichment that prefers what the paragraph says about the location.
SummaryRecord_textfirst(symbol_hint, info, long_summary, ex, now) ==
    [stock |-> PyOr(PyOr(symbol_hint, info.symbol), info.ticker),
     yf_name |-> clean_text(PyOr(PyOr(PyOr(info.longName, info.shortName),
                                      info.displayName), info.name)),
     long_summary |-> long_summary,
     sector |-> clean_text(PyOr(info.sector, info.sectorDisp)),
     industry |-> clean_text(PyOr(info.industry, info.industryDisp)),
     website |-> clean_text(PyOr(info.website, info.irWebsite)),
     employees |-> EmployeesOf(info.fullTimeEmployees),
     city |-> PyOr(ex.city, clean_text(info.city)),
     state |-> PyOr(ex.state, clean_text(PyOr(info.state, info.province))),
     country |-> PyOr(ex.country, clean_text(info.country)),
     currency |-> clean_text(PyOr(info.currency, info.financialCurrency)),
     founded_year |-> ex.founded,
     former_name |-> ex.former,
     updated_at |-> FormatNow(now)]

\* The record built from the chosen info mapping, the cleaned summary and
\* what extract_from_summary found in it.
SummaryRecord(symbol_hint, info, long_summary, ex, now) ==
    [stock |-> PyOr(PyOr(symbol_hint, info.symbol), info.ticker),
     yf_name |-> clean_text(PyOr(PyOr(PyOr(info.longName, info.shortName),
                                      info.displayName), info.name)),
     long_summary |-> long_summary,
     sector |-> clean_text(PyOr(info.sector, info.sectorDisp)),
     industry |-> clean_text(PyOr(info.industry, info.industryDisp)),
     website |-> clean_text(PyOr(info.website, info.irWebsite)),
     employees |-> EmployeesOf(info.fullTimeEmployees),
     city |-> PyOr(clean_text(info.city), ex.city),
     state |-> PyOr(clean_text(PyOr(info.state, info.province)), ex.state),
     country |-> PyOr(clean_text(info.country), ex.country),
     currency |-> clean_text(PyOr(info.currency, info.financialCurrency)),
     founded_year |-> ex.founded,
     former_name |-> ex.former,
     updated_at |-> FormatNow(now)]

\* The first truthy of info.longBusinessSummary, obj.summary and
\* profile.longBusinessSummary, before cleaning.
RawSummary(obj, info) ==
    PyOr(PyOr(info.longBusinessSummary, obj.summary),
         obj.profile.longBusinessSummary)

SummaryOf(symbol_hint, info, long_summary, now) ==
    SummaryRecord(symbol_hint, info, long_summary,
                  extract_from_summary(long_summary), now)

\* AttributeError: the root or "info" is truthy and no mapping, or "profile"
\* is (it is read only when the two sources before it are falsy).
SummaryRaises(obj, info) ==
    \/ RaisesAttr(obj)
    \/ RaisesAttr(obj.info)
    \/ /\ ~Truthy(PyOr(info.longBusinessSummary, obj.summary))
       /\ RaisesAttr(obj.profile)

NormalizeInfo(symbol_hint, obj, info, now) ==
    [raised |-> SummaryRaises(obj, info),
     rec |-> SummaryOf(symbol_hint, info, clean_text(RawSummary(obj, info)), now)]

\* info = obj.get("info") or obj
InfoOf(obj) == IF obj.info.kind = "null" THEN obj.top ELSE obj.info

\* normalize_summary(symbol_hint, root_obj) at time now: [raised, rec].
normalize_summary(symbol_hint, root_obj, now) ==
    NormalizeInfo(symbol_hint, root_obj, InfoOf(root_obj), now)

\* The natural key of a profile row (the PRIMARY KEY of table summary).
SumKey(r) == r.stock

-----------------------------------------------------------------------------
(* The target tables and the upsert (INSERT ... ON DUPLICATE KEY UPDATE).    *)
(* A table is the set of its rows.                                          *)

\* INSERT IGNORE: a row whose key is present is left as it was.
UpsertFinRow_ignore(T, r) ==
    IF \E x \in T : FinKey(x) = FinKey(r) THEN T ELSE T \cup {r}

\* An update list with value = value + VALUES(value): numbers add up.
UpsertFinRow_accumulate(T, r) ==
    IF \E x \in T : FinKey(x) = FinKey(r)
    THEN {IF FinKey(x) = FinKey(r)
          THEN [r EXCEPT !.value = IF x.value.t = "num" /\ r.value.t = "num"
                                   THEN Num(x.value.v + r.value.v)
                                   ELSE r.value]
          ELSE x : x \in T}
    ELSE T \cup {r}

\* One row into financials: a row with the same primary key takes the six
\* listed columns of the new row, otherwise the row is inserted.
UpsertFinRow(T, r) ==
    IF \E x \in T : FinKey(x) = FinKey(r)
    THEN {IF FinKey(x) = FinKey(r)
          THEN [x EXCEPT !.yf_name = r.yf_name,
                         !.stockcurrency = r.stockcurrency,
                         !.financialcurrency = r.financialcurrency,
                         !.calendar_year = r.calendar_year,
                         !.period = r.period,
                         !.value = r.value]
          ELSE x : x \in T}
    ELSE T \cup {r}

\* An update list without updated_at: the row keeps its first timestamp.
UpsertSumRow_keeptime(T, r) ==
    IF \E x \in T : SumKey(x) = SumKey(r)
    THEN {IF SumKey(x) = SumKey(r)
          THEN [r EXCEPT !.updated_at = x.updated_at]
          ELSE x : x \in T}
    ELSE T \cup {r}

\* One row into summary: a row with the same stock takes the thirteen listed
\* columns of the new row, otherwise the row is inserted.
UpsertSumRow(T, r) ==
    IF \E x \in T : SumKey(x) = SumKey(r)
    THEN {IF SumKey(x) = SumKey(r)
          THEN [x EXCEPT !.yf_name = r.yf_name,
                         !.long_summary = r.long_summary,
                         !.sector = r.sector,
                         !.industry = r.industry,
                         !.website = r.website,
                         !.employees = r.employees,
                         !.city = r.city,
                         !.state = r.state,
                         !.country = r.country,
                         !.currency = r.currency,
                         !.founded_year = r.founded_year,
                         !.former_name = r.former_name,
                         !.updated_at = r.updated_at]
          ELSE x : x \in T}
    ELSE T \cup {r}

UpsertRow(drv, T, r) ==
    IF drv = "fin" THEN UpsertFinRow(T, r) ELSE UpsertSumRow(T, r)

RECURSIVE executemany(_, _, _)
\* cur.executemany(insert_sql, batch): the rows of the batch in order.
executemany(drv, T, batch) ==
    IF batch = << >> THEN T
    ELSE executemany(drv, UpsertRow(drv, T, Head(batch)), Tail(batch))

\* upsert_financials / upsert_summary: nothing is executed for an empty
\* batch; the count returned is len(rows).
upsert(drv, T, batch) == [table |-> executemany(drv, T, batch), n |-> Len(batch)]

-----------------------------------------------------------------------------
(* The driver's variables while only a normalizer is exercised.             *)

DriverIdle ==
    /\ driver = "none" /\ cadence = 1 /\ staging = << >> /\ symbols = << >>
    /\ i = 0 /\ total_rows = 0 /\ errors = 0 /\ work = {} /\ durable = {}
    /\ rows = << >> /\ attempted = << >> /\ outcome = << >>
    /\ commitlog = << >>
    /\ rollbacks = 0 /\ failed_rows = {} /\ faults = 0 /\ clock = 0 /\ run = 1
    /\ first_run = [table |-> {}, errors |-> 0, at |-> 0]

-----------------------------------------------------------------------------
(* Bounded inputs of the statement normalizer.                              *)

Range(f) == {f[k] : k \in DOMAIN f}

\* Sequences over S of length at most n whose elements have distinct keys
\* (a JSON object holds each key once).
RECURSIVE DistinctSeqs(_, _)
DistinctSeqs(S, n) ==
    IF n = 0 THEN {<< >>}
    ELSE LET shorter == DistinctSeqs(S, n - 1)
         IN  shorter \cup
             {Append(q, g) : <<q, g>> \in
                 {x \in shorter \X S :
                     /\ Len(x[1]) = n - 1
                     /\ \A k \in 1..Len(x[1]) : x[1][k].key # x[2].key}}

Map(items) == [kind |-> "map", items |-> items]

Item(m, v) == [metric |-> m, val |-> v]

NaT == <<"N", "a", "T">>

\* Metrics values of a date-group: scalar facts, a NaN, a nested value, an
\* empty metric name, JSON null, and a non-empty list in place of a mapping.
MetricsChoices ==
    {Map(<<Item("FreeCashFlow", Num(100))>>),
     Map(<<Item("FreeCashFlow", Num(30)), Item("CapEx", [t |-> "nan", v |-> 0])>>),
     Map(<<Item("", Num(5)), Item("Debt", [t |-> "list", v |-> 0]),
           Item("CapEx", Num(7))>>),
     NoMetrics,
     [kind |-> "list", items |-> << >>]}

YearlyKeys ==
    {_str_key(2023, 12, 31), IsoDate(2023, 12, 31), NaT,
     <<" ">> \o IsoDate(2024, 3, 31)}

QuarterlyKeys ==
    {_str_key(2023, m, 28) : m \in 1..11} \cup
    {_str_key(2023, 12, 31), _str_key(2023, 2, 30), NaT}

YearlyBlocks ==
    {[kind |-> "map", groups |-> q] :
        q \in DistinctSeqs([key : YearlyKeys, metrics : MetricsChoices],
                           MaxDateGroups)}

QuarterlyBlocks ==
    {NoBlock} \cup
    {[kind |-> "map", groups |-> <<[key |-> k, metrics |-> m]>>] :
        k \in QuarterlyKeys,
        m \in {Map(<<Item("FreeCashFlow", Num(30))>>),
               Map(<<Item("CapEx", Num(7)), Item("FreeCashFlow", NullVal)>>)}}

Acme == <<"A", "c", "m", "e">>

AcmeInfo ==
    [NoInfo EXCEPT !.kind = "map", !.longName = Str(Acme),
                   !.currency = Str(<<"U", "S", "D">>)]

IncomeSections ==
    {NoSection,
     [kind |-> "list", yearly |-> NoBlock, quarterly |-> NoBlock],
     [kind |-> "map", quarterly |-> NoBlock,
      yearly |-> [kind |-> "map",
                  groups |-> <<[key |-> _str_key(2023, 12, 31),
                                metrics |-> Map(<<Item("Revenue", Num(9))>>)]>>]]}

NormPayloads ==
    {[EmptyPayload EXCEPT
         !.info = AcmeInfo,
         !.cashflow = [kind |-> "map", yearly |-> y, quarterly |-> q],
         !.incomestatement = s] :
        y \in YearlyBlocks, q \in QuarterlyBlocks, s \in IncomeSections}

-----------------------------------------------------------------------------
(* The statement normalizer applied to every bounded payload.               *)

InitNorm ==
    /\ pc = "call"
    /\ arg \in [symbol : {<<"A", "C", "M", "E">>}, payload : NormPayloads]
    /\ ret = [raised |-> FALSE, out |-> << >>]
    /\ DriverIdle

CallNormalize ==
    /\ pc = "call"
    /\ ret' = normalize_financials(arg.symbol, arg.payload)
    /\ pc' = "returned"
    /\ UNCHANGED <<arg, drv_vars>>

NextNorm == CallNormalize

SpecNorm == InitNorm /\ [][NextNorm]_vars

-----------------------------------------------------------------------------
(* The staging store of the batch drivers.                                  *)
(* A staging row is [symbol, found, j]: found = FALSE is an identifier that  *)
(* get_all_symbols lists and load_one_row's WHERE clause matches no row for  *)
(* (an SQL NULL identifier). The rows are kept distinct and ascending, as    *)
(* SELECT DISTINCT ... ORDER BY returns them.                                *)

IdChars == <<"A", "B", "C", "D", "E">>

AcmeSummary ==
    <<"A", "c", "m", "e", " ", "w", "a", "s", " ", "f", "o", "u", "n", "d", "e", "d", " ", "i", "n", " ", "1", "9", "9", "9", " ", "a", "n", "d", " ", "i", "s", " ", "h", "e", "a", "d", "q", "u", "a", "r", "t", "e", "r", "e", "d", " ", "i", "n", " ", "A", "u", "s", "t", "i", "n", ",", " ", "T", "e", "x", "a", "s", ".">>

\* Yearly and quarterly cash flow on the same date: two records, one key.
PayloadSameDate ==
    [EmptyPayload EXCEPT
       !.info = [AcmeInfo EXCEPT !.longBusinessSummary = Str(AcmeSummary),
                                 !.fullTimeEmployees = Num(12)],
       !.cashflow =
           [kind |-> "map",
            yearly |-> [kind |-> "map",
                        groups |-> <<[key |-> _str_key(2023, 12, 31),
                                      metrics |-> Map(<<Item("FreeCashFlow",
                                                              Num(100))>>)]>>],
            quarterly |-> [kind |-> "map",
                           groups |-> <<[key |-> _str_key(2023, 12, 31),
                                         metrics |-> Map(<<Item("FreeCashFlow",
                                                                 Num(30))>>)]>>]]]

\* Two records with different keys; info names the company itself.
PayloadTwoFacts ==
    [EmptyPayload EXCEPT
       !.info = [NoInfo EXCEPT !.kind = "map", !.symbol = Str(<<"Z">>),
                               !.city = Str(<<"R", "i", "o">>)],
       !.incomestatement =
           [kind |-> "map", quarterly |-> NoBlock,
            yearly |-> [kind |-> "map",
                        groups |-> <<[key |-> _str_key(2023, 12, 31),
                                      metrics |-> Map(<<Item("Revenue", Num(9)),
                                                        Item("CapEx", Num(7))>>)]>>]]]

\* "info" holds a list: both normalizers raise AttributeError.
PayloadBadInfo == [EmptyPayload EXCEPT !.info = [NoInfo EXCEPT !.kind = "list"]]

StagedRowChoices ==
    {[found |-> TRUE, j |-> JsonText(PayloadSameDate)],
     [found |-> TRUE, j |-> JsonText(PayloadTwoFacts)],
     [found |-> TRUE, j |-> JsonText(PayloadBadInfo)],
     [found |-> FALSE, j |-> NonMapping("null")]}

\* The identifiers of a store of n rows: A, B, ... or, with an empty
\* identifier first, "", A, ...
StagedIds(n, with_empty) ==
    [k \in 1..n |-> IF with_empty
                    THEN (IF k = 1 THEN << >> ELSE <<IdChars[k - 1]>>)
                    ELSE <<IdChars[k]>>]

Stagings ==
    UNION {{[k \in 1..n |-> [symbol |-> StagedIds(n, e)[k],
                             found |-> c[k].found, j |-> c[k].j]] :
               c \in [1..n -> StagedRowChoices]} :
           n \in 0..MaxSymbols, e \in BOOLEAN}

-----------------------------------------------------------------------------
(* The batch drivers: Financilas.main and Summary.main.                     *)

get_all_symbols(table) == [k \in 1..Len(table) |-> table[k].symbol]

\* load_one_row: the row of the identifier, found = FALSE when there is none.
load_one_row(table, symbol) ==
    LET hits == {k \in 1..Len(table) : table[k].symbol = symbol /\ table[k].found}
    IN  IF hits = {} THEN [found |-> FALSE, symbol |-> symbol,
                           j |-> NonMapping("null")]
        ELSE table[MinOf(hits)]

\* parse_json_value and the normalizer of the driver on one loaded row:
\* [raised, skip, batch]; skip is Summary.main's "missing stock" case.
FinBatch(r) == [raised |-> r.raised, skip |-> FALSE, batch |-> r.out]

SumBatch(r) ==
    [raised |-> r.raised,
     skip |-> ~r.raised /\ ~Truthy(r.rec.stock),
     batch |-> <<r.rec>>]

Normalized(drv, row, now) ==
    IF drv = "fin"
    THEN FinBatch(normalize_financials(row.symbol, parse_json_value(row.j)))
    ELSE SumBatch(normalize_summary(Str(row.symbol), parse_json_value(row.j),
                                    now))

InitDriver ==
    /\ pc = "start"
    /\ arg = [symbol |-> << >>, payload |-> EmptyPayload]
    /\ ret = [raised |-> FALSE, out |-> << >>]
    /\ driver \in {"fin", "sum"}
    /\ cadence \in 1..MaxCadence
    /\ staging \in Stagings
    /\ symbols = << >> /\ i = 0 /\ total_rows = 0 /\ errors = 0
    /\ work = {} /\ durable = {} /\ rows = << >>
    /\ attempted = << >> /\ outcome = << >> /\ commitlog = << >>
    /\ rollbacks = 0 /\ failed_rows = {} /\ faults = 0
    /\ clock = 0 /\ run = 1
    /\ first_run = [table |-> {}, errors |-> 0, at |-> 0]

\* main() up to the loop: the schema is ensured and committed, the columns
\* are found, the identifiers are listed; an empty list ends the run.
StartRun ==
    /\ pc = "start"
    /\ symbols' = get_all_symbols(staging)
    /\ pc' = IF symbols' = << >> THEN "empty" ELSE "loop"
    /\ i' = 0 /\ total_rows' = 0 /\ errors' = 0
    /\ attempted' = << >> /\ outcome' = << >> /\ commitlog' = << >>
    /\ rows' = << >>
    /\ UNCHANGED <<arg, ret, driver, cadence, staging, work, durable,
                   rollbacks, failed_rows, faults, clock, run, first_run>>

InLoop == pc = "loop" /\ i < Len(symbols)

\* What every iteration does whatever its outcome: `for i, symbol in
\* enumerate(symbols, 1)` binds the next identifier.
Advance(what) ==
    /\ i' = i + 1
    /\ attempted' = Append(attempted, symbols[i + 1])
    /\ outcome' = Append(outcome, what)
    /\ UNCHANGED <<pc, arg, ret, driver, cadence, staging, symbols, rollbacks,
                   clock, run, first_run>>

\* A loop without the try/except: the first exception ends main().
IterLoadError_fatal ==
    /\ InLoop
    /\ faults < MaxFaults
    /\ faults' = faults + 1
    /\ errors' = errors + 1
    /\ pc' = "aborted"
    /\ UNCHANGED <<arg, ret, driver, cadence, staging, symbols, i, total_rows,
                   work, durable, rows, attempted, outcome, commitlog,
                   rollbacks, failed_rows, clock, run, first_run>>

\* load_one_row raises (the server fails the SELECT): caught, counted.
IterLoadError ==
    /\ InLoop
    /\ faults < MaxFaults
    /\ faults' = faults + 1
    /\ errors' = errors + 1
    /\ Advance("load_error")
    /\ UNCHANGED <<total_rows, work, durable, rows, commitlog, failed_rows>>

\* `if not row: ... continue`
IterNoRow ==
    /\ InLoop
    /\ ~load_one_row(staging, symbols[i + 1]).found
    /\ Advance("no_row")
    /\ UNCHANGED <<total_rows, errors, work, durable, rows, commitlog,
                   failed_rows, faults>>

\* A handler that logs the exception without counting it.
IterNormalizeError_uncounted ==
    /\ InLoop
    /\ \E row \in {load_one_row(staging, symbols[i + 1])} :
          row.found /\ Normalized(driver, row, clock).raised
    /\ Advance("normalize_error")
    /\ UNCHANGED <<total_rows, errors, work, durable, rows, commitlog,
                   failed_rows, faults>>

\* parse or normalize raises: caught, counted.
IterNormalizeError ==
    /\ InLoop
    /\ \E row \in {load_one_row(staging, symbols[i + 1])} :
          row.found /\ Normalized(driver, row, clock).raised
    /\ errors' = errors + 1
    /\ Advance("normalize_error")
    /\ UNCHANGED <<total_rows, work, durable, rows, commitlog, failed_rows,
                   faults>>

\* A driver that treats the missing identifier as a failure of the company.
IterSkipMissingStock_counted ==
    /\ InLoop
    /\ \E row \in {load_one_row(staging, symbols[i + 1])} :
          row.found /\ Normalized(driver, row, clock).skip
    /\ errors' = errors + 1
    /\ Advance("skipped")
    /\ UNCHANGED <<total_rows, work, durable, rows, commitlog, failed_rows,
                   faults>>

\* Summary.main: `if not rec.get("stock"): ... continue`
IterSkipMissingStock ==
    /\ InLoop
    /\ \E row \in {load_one_row(staging, symbols[i + 1])} :
          row.found /\ Normalized(driver, row, clock).skip
    /\ Advance("skipped")
    /\ UNCHANGED <<total_rows, errors, work, durable, rows, commitlog,
                   failed_rows, faults>>

\* executemany raises on row n + 1 of the batch after the rows before it were
\* applied (how many is the driver's business: one multi-row statement
\* applies none, row-by-row execution applies those before the failing row).
\* The handler counts the error; nothing is rolled back.
IterUpsertError ==
    /\ InLoop
    /\ faults < MaxFaults
    /\ \E row \in {load_one_row(staging, symbols[i + 1])} :
       \E nz \in {Normalized(driver, row, clock)} :
           /\ row.found /\ ~nz.raised /\ ~nz.skip /\ nz.batch # << >>
           /\ \E n \in 0..(Len(nz.batch) - 1) :
                 /\ work' = executemany(driver, work, SubSeq(nz.batch, 1, n))
                 /\ failed_rows' = failed_rows \cup
                                     {nz.batch[k] : k \in 1..n}
           /\ rows' = nz.batch
    /\ faults' = faults + 1
    /\ errors' = errors + 1
    /\ Advance("write_error")
    /\ UNCHANGED <<total_rows, durable, commitlog>>

\* The iteration that reaches the end of the try block: upsert, running
\* total, and `if i % COMMIT_EVERY_SYMBOLS == 0: conn.commit()`.
IterOk ==
    /\ InLoop
    /\ \E row \in {load_one_row(staging, symbols[i + 1])} :
       \E nz \in {Normalized(driver, row, clock)} :
       \E up \in {upsert(driver, work, nz.batch)} :
           /\ row.found /\ ~nz.raised /\ ~nz.skip
           /\ rows' = nz.batch
           /\ work' = up.table
           /\ total_rows' = total_rows + up.n
           /\ IF (i + 1) % cadence = 0
              THEN /\ durable' = up.table
                   /\ commitlog' = Append(commitlog, i + 1)
              ELSE UNCHANGED <<durable, commitlog>>
    /\ Advance("ok")
    /\ UNCHANGED <<errors, failed_rows, faults>>

\* A main() that ends after the loop without committing.
FinalCommit_nocommit ==
    /\ pc \in {"loop", "loop_offset"} /\ i = Len(symbols)
    /\ pc' = "done"
    /\ UNCHANGED <<arg, ret, driver, cadence, staging, symbols, i, total_rows,
                   errors, work, durable, rows, attempted, outcome, commitlog,
                   rollbacks, failed_rows, faults, clock, run, first_run>>

\* After the loop: the final conn.commit() and the end-of-run summary.
FinalCommit ==
    /\ pc \in {"loop", "loop_offset"} /\ i = Len(symbols)
    /\ durable' = work
    /\ commitlog' = Append(commitlog, 0)
    /\ pc' = "done"
    /\ UNCHANGED <<arg, ret, driver, cadence, staging, symbols, i, total_rows,
                   errors, work, rows, attempted, outcome, rollbacks,
                   failed_rows, faults, clock, run, first_run>>

Next ==
    \/ StartRun
    \/ IterLoadError
    \/ IterNoRow
    \/ IterNormalizeError
    \/ IterSkipMissingStock
    \/ IterUpsertError
    \/ IterOk
    \/ FinalCommit

Spec == InitDriver /\ [][Next]_vars

\* The UTC clock that datetime.utcnow() reads moves on between any two steps.
Tick ==
    /\ clock < MaxClock
    /\ clock' = clock + 1
    /\ UNCHANGED <<pc, arg, ret, driver, cadence, staging, symbols, i,
                   total_rows, errors, work, durable, rows, attempted, outcome,
                   commitlog, rollbacks, failed_rows, faults, run, first_run>>

\* The script is started a second time on the same staging store, with a
\* new connection: what the first run committed is what the second one finds.
Rerun ==
    /\ pc \in {"done", "empty"} /\ run = 1
    /\ run' = 2
    /\ first_run' = [table |-> durable, errors |-> errors, at |-> clock]
    /\ work' = durable
    /\ pc' = "start"
    /\ UNCHANGED <<arg, ret, driver, cadence, staging, symbols, i, total_rows,
                   errors, durable, rows, attempted, outcome, commitlog,
                   rollbacks, failed_rows, faults, clock>>

NextRerun == Next \/ Tick \/ Rerun

InitRerun == InitDriver /\ Len(staging) <= MaxRerunSymbols

SpecRerun == InitRerun /\ [][NextRerun]_vars

\* The pipeline is terminated somewhere in the company loop: the
\* server rolls back the open transaction of the lost connection (InnoDB,
\* autocommit off), so the table is what the last commit left.
Kill ==
    /\ pc = "loop" /\ run = 1
    /\ pc' = "killed"
    /\ work' = durable
    /\ UNCHANGED <<arg, ret, driver, cadence, staging, symbols, i, total_rows,
                   errors, durable, rows, attempted, outcome, commitlog,
                   rollbacks, failed_rows, faults, clock, run, first_run>>

\* The script is started again from scratch after the termination.
RerunAfterKill ==
    /\ pc = "killed" /\ run = 1
    /\ run' = 2
    /\ first_run' = [table |-> durable, errors |-> errors, at |-> clock]
    /\ pc' = "start"
    /\ UNCHANGED <<arg, ret, driver, cadence, staging, symbols, i, total_rows,
                   errors, work, durable, rows, attempted, outcome, commitlog,
                   rollbacks, failed_rows, faults, clock>>

NextKill == Next \/ Kill \/ RerunAfterKill

InitKill == InitRerun

SpecKill == InitKill /\ [][NextKill]_vars

RECURSIVE RunOver(_, _, _)
\* The table after the loop of Financilas.main over the identifiers syms,
\* started on table T, when no statement fails.
RunOver(T, table, syms) ==
    IF syms = << >> THEN T
    ELSE LET row == load_one_row(table, Head(syms))
             nz == Normalized("fin", row, 0)
         IN  RunOver(IF row.found /\ ~nz.raised /\ ~nz.skip
                     THEN upsert("fin", T, nz.batch).table
                     ELSE T,
                     table, Tail(syms))

\* A single uninterrupted run over the staging store, from an empty table.
Uninterrupted(table) == RunOver({}, table, get_all_symbols(table))

\* The driver is one sequential thread that runs until main() returns. Every
\* step of Next changes pc or i, and main() has returned exactly when pc is
\* neither "start" nor "loop": fairness is stated on that change.
Running ==
    /\ pc \in {"start", "loop"}
    /\ pc' \in {"loop", "empty", "done"}
    /\ i' \in {i, i + 1}

LiveSpec == Spec /\ WF_<<pc, i>>(Running)

-----------------------------------------------------------------------------
(* Either normalizer called twice with the same arguments, at two moments.   *)
(* Here ret is the sequence of the calls made: [at, val], val the value     *)
(* returned and at the clock when the call was made.                        *)

TwicePayloads == {EmptyPayload, PayloadSameDate, PayloadTwoFacts, PayloadBadInfo}

InitTwice ==
    /\ pc = "call"
    /\ arg \in [symbol : {<< >>, <<"A", "C", "M", "E">>}, payload : TwicePayloads]
    /\ ret = << >>
    /\ driver \in {"fin", "sum"}
    /\ cadence = 1 /\ staging = << >> /\ symbols = << >>
    /\ i = 0 /\ total_rows = 0 /\ errors = 0 /\ work = {} /\ durable = {}
    /\ rows = << >> /\ attempted = << >> /\ outcome = << >>
    /\ commitlog = << >>
    /\ rollbacks = 0 /\ failed_rows = {} /\ faults = 0 /\ clock = 0 /\ run = 1
    /\ first_run = [table |-> {}, errors |-> 0, at |-> 0]

\* normalize_financials(symbol, payload) or normalize_summary(symbol,
\* payload), as the drivers call them.
CallOf(drv, a, now) ==
    IF drv = "fin"
    THEN normalize_financials(a.symbol, a.payload)
    ELSE normalize_summary(Str(a.symbol), a.payload, now)

CallFirst ==
    /\ pc = "call"
    /\ ret' = <<[at |-> clock, val |-> CallOf(driver, arg, clock)]>>
    /\ pc' = "again"
    /\ UNCHANGED <<arg, drv_vars>>

CallSecond ==
    /\ pc = "again"
    /\ ret' = Append(ret, [at |-> clock, val |-> CallOf(driver, arg, clock)])
    /\ pc' = "returned"
    /\ UNCHANGED <<arg, drv_vars>>

NextTwice == CallFirst \/ CallSecond \/ Tick

SpecTwice == InitTwice /\ [][NextTwice]_vars

-----------------------------------------------------------------------------
(* The profile normalizer applied to bounded payloads: structured location  *)
(* fields that are missing, empty, blank or filled, and a summary paragraph  *)
(* that names no headquarters or one of one, two or three parts.            *)

HqOne ==
    <<"H", "e", "a", "d", "q", "u", "a", "r", "t", "e", "r", "e", "d", " ",
      "i", "n", " ", "O", "s", "l", "o", ".">>

HqThree ==
    <<"I", "t", " ", "i", "s", " ", "h", "e", "a", "d", "q", "u", "a", "r",
      "t", "e", "r", "e", "d", " ", "i", "n", " ", "B", "o", "n", "n", ",",
      " ", "N", "R", "W", ",", " ", "G", "e", "r", "m", "a", "n", "y", ".">>

SummaryChoices == {None, Str(HqOne), Str(AcmeSummary), Str(HqThree)}

LocationInfos ==
    {[NoInfo EXCEPT !.kind = "map", !.city = c, !.state = st,
                    !.province = pv, !.country = co,
                    !.longBusinessSummary = ls] :
        c \in {None, Str(<< >>), Str(<<" ">>), Str(<<"R", "i", "o">>)},
        st \in {None, Str(<<" ">>), Str(<<"R", "J">>)},
        pv \in {None, Str(<<"P", "R">>)},
        co \in {None, Str(<< >>), Str(<<"B", "R">>)},
        ls \in SummaryChoices}

SumPayloads == {[EmptyPayload EXCEPT !.info = inf] : inf \in LocationInfos}

InitSum ==
    /\ pc = "call"
    /\ arg \in [symbol : {<< >>, <<"A", "C", "M", "E">>}, payload : SumPayloads]
    /\ ret = [raised |-> FALSE, rec |-> << >>]
    /\ DriverIdle

CallSummary ==
    /\ pc = "call"
    /\ ret' = CallOf("sum", arg, clock)
    /\ pc' = "returned"
    /\ UNCHANGED <<arg, drv_vars>>

NextSum == CallSummary

SpecSum == InitSum /\ [][NextSum]_vars

-----------------------------------------------------------------------------
(* parse_json_value on every kind of raw staging value, followed by the     *)
(* normalizer of the driver. Here ret is [obj, nz]: the parsed value and,   *)
(* once normalized, what Normalized gives for it.                           *)

DecodedValues ==
    {EmptyPayload, PayloadTwoFacts,
     NonMapping("list"), NonMapping("num"), NonMapping("null")}

\* Texts that encode a decoded value, directly or after unescaping, and
\* text that is no JSON.
TextsOf(V) == {JsonText(v) : v \in V} \cup {EscapedText(v) : v \in V}

PlainTexts == TextsOf(DecodedValues) \cup {Undecodable}

\* Texts that encode a JSON string which is itself one of the texts above.
NestedTexts == TextsOf(PlainTexts)

RawValues ==
    DecodedValues \cup PlainTexts \cup NestedTexts
        \cup {Bytes(t) : t \in PlainTexts \cup NestedTexts}

InitParse ==
    /\ pc = "call"
    /\ arg \in [symbol : {<<"A", "C", "M", "E">>}, j : RawValues]
    /\ ret = [obj |-> EmptyPayload, nz |-> FinBatch([raised |-> FALSE, out |-> << >>])]
    /\ driver \in {"fin", "sum"}
    /\ cadence = 1 /\ staging = << >> /\ symbols = << >>
    /\ i = 0 /\ total_rows = 0 /\ errors = 0 /\ work = {} /\ durable = {}
    /\ rows = << >> /\ attempted = << >> /\ outcome = << >>
    /\ commitlog = << >>
    /\ rollbacks = 0 /\ failed_rows = {} /\ faults = 0 /\ clock = 0 /\ run = 1
    /\ first_run = [table |-> {}, errors |-> 0, at |-> 0]

\* obj = parse_json_value(j)
ParseRaw ==
    /\ pc = "call"
    /\ ret' = [ret EXCEPT !.obj = parse_json_value(arg.j)]
    /\ pc' = "parsed"
    /\ UNCHANGED <<arg, drv_vars>>

\* rows = normalize_financials(stock, obj) / rec = normalize_summary(
\* symbol_hint, obj), with the driver's missing-stock test.
NormalizeParsed ==
    /\ pc = "parsed"
    /\ ret' = [ret EXCEPT !.nz =
                  IF driver = "fin"
                  THEN FinBatch(normalize_financials(arg.symbol, ret.obj))
                  ELSE SumBatch(normalize_summary(Str(arg.symbol), ret.obj,
                                                  clock))]
    /\ pc' = "returned"
    /\ UNCHANGED <<arg, drv_vars>>

NextParse == ParseRaw \/ NormalizeParsed

SpecParse == InitParse /\ [][NextParse]_vars

-----------------------------------------------------------------------------
(* details.py: clean_json, applied to its own result.                       *)
(* A Python value is [t, s, items]: t its type, s its text when it is a     *)
(* scalar, items its elements when it is a container. An element of a dict   *)
(* is an entry, [t |-> "entry:str" or "entry:int", s |-> key, items |->      *)
(* <<value>>].                                                              *)

Scalar(t, s) == [t |-> t, s |-> s, items |-> << >>]

Container(t, items) == [t |-> t, s |-> "", items |-> items]

PyNone == Scalar("none", "")

\* What pd.isna gives for a scalar: None, NaN and NaT are missing, an
\* infinity is not.
IsMissing(x) == x.t \in {"none", "nan", "np.nan", "nat"}

RECURSIVE SingleMissing(_)
\* pd.isna of a list is the element-wise test of np.asarray(obj,
\* dtype=object), in which nested lists and tuples become dimensions; the
\* `if` takes it as true only when the array has one element and that
\* element is missing (no element: false; more than one: ValueError,
\* caught and passed over).
SingleMissing(x) ==
    /\ Len(x.items) = 1
    /\ IF x.items[1].t \in {"list", "tuple"}
       THEN SingleMissing(x.items[1])
       ELSE IsMissing(x.items[1])

\* `if pd.isna(obj): return None` inside try/except.
IsnaTaken(x) == IsMissing(x) \/ (x.t = "list" /\ SingleMissing(x))

RECURSIVE clean_json(_)
clean_json(obj) ==
    IF obj.t = "none" THEN PyNone
    ELSE IF IsnaTaken(obj) THEN PyNone
    ELSE IF obj.t = "np.int" THEN Scalar("int", obj.s)
    ELSE IF obj.t = "np.float" THEN Scalar("float", obj.s)
    ELSE IF obj.t = "np.inf" THEN PyNone
    ELSE IF obj.t = "np.bool" THEN Scalar("bool", obj.s)
    ELSE IF obj.t = "inf" THEN PyNone
    ELSE IF obj.t \in {"float", "int", "bool", "str"} THEN obj
    ELSE IF obj.t = "bytes" THEN Scalar("str", obj.s)
    ELSE IF obj.t \in {"datetime", "date"} THEN Scalar("str", obj.s)
    ELSE IF obj.t = "dict"
         THEN Container("dict",
                        [k \in 1..Len(obj.items) |->
                            [t |-> "entry:str", s |-> obj.items[k].s,
                             items |-> <<clean_json(obj.items[k].items[1])>>]])
    ELSE IF obj.t \in {"list", "tuple", "set"}
         THEN Container("list", [k \in 1..Len(obj.items) |->
                                    clean_json(obj.items[k])])
    ELSE Scalar("str", obj.s)

\* Scalars of every type the function tells apart.
PyScalars ==
    {PyNone, Scalar("nan", "nan"), Scalar("inf", "inf"), Scalar("int", "1"),
     Scalar("float", "1.5"), Scalar("bool", "True"), Scalar("str", "x"),
     Scalar("bytes", "x"), Scalar("datetime", "2024-01-01T00:00:00+00:00"),
     Scalar("date", "2024-01-01"), Scalar("np.int", "1"),
     Scalar("np.float", "1.5"), Scalar("np.nan", "nan"),
     Scalar("np.inf", "inf"), Scalar("np.bool", "True"),
     Scalar("decimal", "1.5")}

RECURSIVE SeqsUpTo(_, _)
\* Sequences over S of length at most n.
SeqsUpTo(S, n) ==
    IF n = 0 THEN {<< >>}
    ELSE SeqsUpTo(S, n - 1) \cup
         {Append(q, x) : q \in {w \in SeqsUpTo(S, n - 1) : Len(w) = n - 1},
                         x \in S}

\* A dict of one entry, under a str key or an int key.
DictsOf(V) ==
    {Container("dict", << >>)} \cup
    {Container("dict", <<[t |-> kt, s |-> "1", items |-> <<v>>]>>) :
        kt \in {"entry:str", "entry:int"}, v \in V}

\* A set of at most one (hashable) element.
SetsOf(V) ==
    {Container("set", << >>)} \cup
    {Container("set", <<v>>) : v \in {x \in V : x.items = << >>}}

FlatValues ==
    PyScalars
      \cup {Container(t, q) : t \in {"list", "tuple"},
                              q \in SeqsUpTo(PyScalars, MaxItems)}
      \cup DictsOf(PyScalars) \cup SetsOf(PyScalars)

\* Containers of one container.
NestedValues ==
    {Container(t, <<v>>) : t \in {"list", "tuple"},
                          v \in FlatValues \ PyScalars}
      \cup DictsOf(FlatValues \ PyScalars)

InitClean ==
    /\ pc = "call"
    /\ arg \in [obj : FlatValues \cup NestedValues]
    /\ ret = << >>
    /\ DriverIdle

\* clean_json(x)
CleanOnce ==
    /\ pc = "call"
    /\ ret' = <<clean_json(arg.obj)>>
    /\ pc' = "again"
    /\ UNCHANGED <<arg, drv_vars>>

\* clean_json of what the first call returned.
CleanAgain ==
    /\ pc = "again"
    /\ ret' = Append(ret, clean_json(ret[1]))
    /\ pc' = "returned"
    /\ UNCHANGED <<arg, drv_vars>>

NextClean == CleanOnce \/ CleanAgain

SpecClean == InitClean /\ [][NextClean]_vars

-----------------------------------------------------------------------------
(* Configuration discovery: the columns of the source table are looked up   *)
(* among the conventional names before the run lists its identifiers.       *)
(* Here arg is [cols]: the column names DESCRIBE returns; ret is what       *)
(* find_symbol_and_json_columns gives, "" standing for None.                *)

SymbolColumns == <<"stock", "symbol", "ticker", "SYMBOL", "TICKER">>

JsonColumns(drv) ==
    IF drv = "fin"
    THEN <<"json", "payload", "data", "JSON", "PAYLOAD", "DATA">>
    ELSE <<"json", "payload", "data", "info", "INFO", "JSON", "PAYLOAD",
           "DATA", "yf_info", "YF_INFO">>

\* `for c in (...): if c in cols: ...; break`
FirstIn(cands, cols) ==
    IF \E k \in 1..Len(cands) : cands[k] \in cols
    THEN cands[MinOf({k \in 1..Len(cands) : cands[k] \in cols})]
    ELSE ""

\* A lookup that lets a missing payload column pass.
FoundColumns_lenient(drv, sym, js) ==
    [raised |-> drv = "fin" /\ sym = "", sym_col |-> sym, json_col |-> js]

\* Financilas raises RuntimeError for either column, Summary only for the
\* payload column (its identifier column is optional).
FoundColumns(drv, sym, js) ==
    [raised |-> (drv = "fin" /\ sym = "") \/ js = "",
     sym_col |-> sym, json_col |-> js]

find_symbol_and_json_columns(drv, cols) ==
    FoundColumns(drv, FirstIn(SymbolColumns, cols),
                 FirstIn(JsonColumns(drv), cols))

ColumnSets == {c \cup {"id"} : c \in SUBSET {"symbol", "ticker", "json", "info"}}

InitConfig ==
    /\ pc = "discover"
    /\ arg \in [cols : ColumnSets]
    /\ ret = [raised |-> FALSE, sym_col |-> "", json_col |-> ""]
    /\ driver \in {"fin", "sum"}
    /\ cadence \in 1..MaxCadence
    /\ staging \in {t \in Stagings : Len(t) <= MaxRerunSymbols}
    /\ symbols = << >> /\ i = 0 /\ total_rows = 0 /\ errors = 0
    /\ work = {} /\ durable = {} /\ rows = << >>
    /\ attempted = << >> /\ outcome = << >> /\ commitlog = << >>
    /\ rollbacks = 0 /\ failed_rows = {} /\ faults = 0
    /\ clock = 0 /\ run = 1
    /\ first_run = [table |-> {}, errors |-> 0, at |-> 0]

\* sym_col, json_col = find_symbol_and_json_columns(cur): a RuntimeError
\* leaves main() through its finally clause.
FindColumns ==
    /\ pc = "discover"
    /\ ret' = find_symbol_and_json_columns(driver, arg.cols)
    /\ pc' = IF ret'.raised THEN "config_error"
             ELSE IF ret'.sym_col = "" THEN "start_offset" ELSE "start"
    /\ UNCHANGED <<arg, drv_vars>>

\* Summary.get_all_symbols without an identifier column: list(range(n)).
StartRunByOffset ==
    /\ pc = "start_offset"
    /\ symbols' = [k \in 1..Len(staging) |-> k - 1]
    /\ pc' = IF symbols' = << >> THEN "empty" ELSE "loop_offset"
    /\ i' = 0 /\ total_rows' = 0 /\ errors' = 0
    /\ attempted' = << >> /\ outcome' = << >> /\ commitlog' = << >>
    /\ rows' = << >>
    /\ UNCHANGED <<arg, ret, driver, cadence, staging, work, durable,
                   rollbacks, failed_rows, faults, clock, run, first_run>>

\* One iteration of Summary.main when rows are loaded by offset:
\* load_one_row returns (None, json), so the identifier can only come from
\* the payload.
IterByOffset ==
    /\ pc = "loop_offset" /\ i < Len(symbols)
    /\ \E nz \in {SumBatch(normalize_summary(None,
                        parse_json_value(staging[i + 1].j), clock))} :
       \E up \in {upsert(driver, work, nz.batch)} :
          IF nz.raised
          THEN /\ errors' = errors + 1
               /\ Advance("normalize_error")
               /\ UNCHANGED <<total_rows, work, durable, rows, commitlog>>
          ELSE IF nz.skip
          THEN /\ Advance("skipped")
               /\ UNCHANGED <<total_rows, errors, work, durable, rows,
                              commitlog>>
          ELSE /\ rows' = nz.batch
               /\ work' = up.table
               /\ total_rows' = total_rows + up.n
               /\ IF (i + 1) % cadence = 0
                  THEN /\ durable' = up.table
                       /\ commitlog' = Append(commitlog, i + 1)
                  ELSE UNCHANGED <<durable, commitlog>>
               /\ Advance("ok")
               /\ UNCHANGED errors
    /\ UNCHANGED <<failed_rows, faults>>

NextConfig == FindColumns \/ StartRunByOffset \/ IterByOffset \/ Next

SpecConfig == InitConfig /\ [][NextConfig]_vars

-----------------------------------------------------------------------------
(* The staging loader: details.main.                                        *)
(* arg is [csv]: the cells of the CSV's symbol column after str.strip(),   *)
(* "" for a cell that is NaN or blank; ret is [already]; symbols is        *)
(* to_fetch; rows is loaded_ok; errors is failed; work and durable are the  *)
(* staging table as the connection sees it and as committed. A staging row  *)
(* is [symbol, payload, loaded_at, run], run telling which run inserted it. *)

MaxLoadRuns == 3

CsvCells == {"AAPL", "MSFT", ""}

CsvColumns == UNION {[1..n -> CsvCells] : n \in 1..2}

\* .dropna() ... .replace({"": None}).dropna().drop_duplicates().tolist()
CsvSymbols(cells) ==
    SelectSeq([k \in 1..Len(cells) |->
                  IF cells[k] = "" \/ \E h \in 1..(k - 1) : cells[h] = cells[k]
                  THEN "" ELSE cells[k]],
              LAMBDA c : c # "")

\* to_fetch = [s for s in symbols if s not in already]
ToFetch(syms, already) == SelectSeq(syms, LAMBDA c : c \notin already)

\* fetch_for_symbol returns a payload: the data, or the data with
\* info = {"_error": ...} when the info request raised.
FetchedPayloads == {"data", "info_error"}

StagingRow(sym, payload, now) ==
    [symbol |-> sym, payload |-> payload, loaded_at |-> FormatNow(now),
     run |-> run]

\* UNIQUE KEY uq_symbol_loaded_at (symbol, loaded_at)
DuplicateKey(T, r) ==
    \E o \in T : o.symbol = r.symbol /\ o.loaded_at = r.loaded_at

InitLoad ==
    /\ pc = "load_start"
    /\ arg \in [csv : CsvColumns]
    /\ ret = [already |-> {}]
    /\ driver = "load" /\ cadence = 1 /\ staging = << >>
    /\ symbols = << >> /\ i = 0 /\ total_rows = 0 /\ errors = 0
    /\ work = {} /\ durable = {} /\ rows = << >>
    /\ attempted = << >> /\ outcome = << >> /\ commitlog = << >>
    /\ rollbacks = 0 /\ failed_rows = {} /\ faults = 0
    /\ clock = 0 /\ run = 1
    /\ first_run = [table |-> {}, errors |-> 0, at |-> 0]

\* What main() sets up before the loop, given the set get_existing_symbols
\* returned.
BeginLoad(already) ==
    /\ CsvSymbols(arg.csv) # << >>
    /\ ret' = [already |-> already]
    /\ symbols' = ToFetch(CsvSymbols(arg.csv), already)
    /\ pc' = "load_loop"
    /\ i' = 0 /\ errors' = 0 /\ rows' = << >>
    /\ attempted' = << >> /\ outcome' = << >> /\ commitlog' = << >>
    /\ UNCHANGED <<arg, driver, cadence, staging, total_rows, work, durable,
                   rollbacks, failed_rows, clock, run, first_run>>

\* `if not symbols: raise ValueError("No symbols found in the CSV.")`
LoadNoSymbols ==
    /\ pc = "load_start"
    /\ CsvSymbols(arg.csv) = << >>
    /\ pc' = "load_no_symbols"
    /\ UNCHANGED <<arg, ret, drv_vars>>

\* get_existing_symbols: SELECT DISTINCT symbol succeeds.
StartLoad ==
    /\ pc = "load_start"
    /\ BeginLoad({r.symbol : r \in work})
    /\ UNCHANGED faults

\* get_existing_symbols: the SELECT raises mysql.Error, `return set()`.
StartLoadQueryFails ==
    /\ pc = "load_start"
    /\ faults < MaxFaults
    /\ faults' = faults + 1
    /\ BeginLoad({})

InLoadLoop == pc = "load_loop" /\ i < Len(symbols)

\* `for sym in to_fetch` binds the next symbol.
LoadAdvance(what) ==
    /\ i' = i + 1
    /\ attempted' = Append(attempted, symbols[i + 1])
    /\ outcome' = Append(outcome, what)
    /\ UNCHANGED <<pc, arg, ret, driver, cadence, staging, symbols,
                   total_rows, failed_rows, clock, run, first_run>>

\* fetch_for_symbol raises (a statement property of the ticker raises).
LoadFetchRaises ==
    /\ InLoadLoop
    /\ faults < MaxFaults
    /\ faults' = faults + 1
    /\ errors' = errors + 1
    /\ LoadAdvance("fetch_error")
    /\ UNCHANGED <<work, durable, rows, commitlog, rollbacks>>

\* json.dumps(..., allow_nan=False) raises while the arguments of
\* cur.execute are evaluated: no statement was sent, nothing is rolled back.
LoadDumpsRaises ==
    /\ InLoadLoop
    /\ faults < MaxFaults
    /\ faults' = faults + 1
    /\ errors' = errors + 1
    /\ LoadAdvance("dumps_error")
    /\ UNCHANGED <<work, durable, rows, commitlog, rollbacks>>

\* cur.execute raises mysql.Error, the duplicate (symbol, loaded_at) or a
\* failure of the server: conn.rollback(), RuntimeError, failed += 1.
LoadInsertFails ==
    /\ InLoadLoop
    /\ \/ /\ \E payload \in FetchedPayloads :
                DuplicateKey(work, StagingRow(symbols[i + 1], payload, clock))
          /\ UNCHANGED faults
       \/ /\ faults < MaxFaults
          /\ faults' = faults + 1
    /\ work' = durable
    /\ rollbacks' = rollbacks + 1
    /\ errors' = errors + 1
    /\ LoadAdvance("insert_error")
    /\ UNCHANGED <<durable, rows, commitlog>>

\* An insert_symbol_payload whose handler does not roll back.
LoadCommitFails_norollback ==
    /\ InLoadLoop
    /\ faults < MaxFaults
    /\ \E payload \in FetchedPayloads :
       \E r \in {StagingRow(symbols[i + 1], payload, clock)} :
          /\ ~DuplicateKey(work, r)
          /\ work' = work \cup {r}
    /\ faults' = faults + 1
    /\ errors' = errors + 1
    /\ LoadAdvance("commit_error")
    /\ UNCHANGED <<durable, rows, commitlog, rollbacks>>

\* The INSERT is executed and conn.commit() raises mysql.Error:
\* conn.rollback() drops the inserted row.
LoadCommitFails ==
    /\ InLoadLoop
    /\ faults < MaxFaults
    /\ \E payload \in FetchedPayloads :
          ~DuplicateKey(work, StagingRow(symbols[i + 1], payload, clock))
    /\ work' = durable
    /\ rollbacks' = rollbacks + 1
    /\ faults' = faults + 1
    /\ errors' = errors + 1
    /\ LoadAdvance("commit_error")
    /\ UNCHANGED <<durable, rows, commitlog>>

\* The iteration that reaches loaded_ok.append(sym): whatever was fetched is
\* inserted and committed.
LoadOk ==
    /\ InLoadLoop
    /\ \E payload \in FetchedPayloads :
       \E r \in {StagingRow(symbols[i + 1], payload, clock)} :
          /\ ~DuplicateKey(work, r)
          /\ work' = work \cup {r}
          /\ durable' = work'
          /\ LoadAdvance(IF payload = "data" THEN "ok" ELSE "info_error")
    /\ commitlog' = Append(commitlog, i + 1)
    /\ rows' = Append(rows, symbols[i + 1])
    /\ UNCHANGED <<errors, rollbacks, faults>>

\* After the loop: conn.close() and symbols_loaded.csv.
LoadFinish ==
    /\ pc = "load_loop" /\ i = Len(symbols)
    /\ pc' = "load_done"
    /\ work' = durable
    /\ UNCHANGED <<arg, ret, driver, cadence, staging, symbols, i, total_rows,
                   errors, durable, rows, attempted, outcome, commitlog,
                   rollbacks, failed_rows, faults, clock, run, first_run>>

\* The loader is run again over the same CSV.
LoadAgain ==
    /\ pc = "load_done" /\ run < MaxLoadRuns
    /\ run' = run + 1
    /\ pc' = "load_start"
    /\ UNCHANGED <<arg, ret, driver, cadence, staging, symbols, i, total_rows,
                   errors, work, durable, rows, attempted, outcome, commitlog,
                   rollbacks, failed_rows, faults, clock, first_run>>

NextLoad ==
    \/ LoadNoSymbols
    \/ StartLoad
    \/ StartLoadQueryFails
    \/ LoadFetchRaises
    \/ LoadDumpsRaises
    \/ LoadInsertFails
    \/ LoadCommitFails
    \/ LoadOk
    \/ LoadFinish
    \/ LoadAgain
    \/ Tick

SpecLoad == InitLoad /\ [][NextLoad]_vars

-----------------------------------------------------------------------------
(* The statement normalizer applied to date-groups whose metric/value       *)
(* pairs range over every kind of JSON value.                               *)

MaxPairs == 2

\* Values of a metric: numbers (0 included), NaN, Infinity, null, a string,
\* a boolean, a nested mapping and a nested list.
ItemValues ==
    {Num(100), Num(0), NullVal,
     [t |-> "nan", v |-> 0], [t |-> "inf", v |-> 0],
     [t |-> "str", v |-> 0], [t |-> "bool", v |-> 1],
     [t |-> "dict", v |-> 0], [t |-> "list", v |-> 0]}

MetricNames == {"", "CapEx", "Debt"}

\* The items of a metrics mapping: each name at most once.
ItemLists ==
    {q \in UNION {[1..n -> [metric : MetricNames, val : ItemValues]] :
                     n \in 1..MaxPairs} :
        \A a, b \in 1..Len(q) : a # b => q[a].metric # q[b].metric}

\* A payload with one block at (folder, freq): a date-group with the given
\* key and items and, when `more`, a second date-group after it.
ItemsPayload(folder, freq, key, items, more) ==
    LET groups == <<[key |-> key, metrics |-> Map(items)]>> \o
                  (IF more
                   THEN <<[key |-> _str_key(2022, 12, 31),
                           metrics |-> Map(<<Item("Revenue", Num(9))>>)]>>
                   ELSE << >>)
        block == [kind |-> "map", groups |-> groups]
        section == IF freq = "yearly"
                   THEN [kind |-> "map", yearly |-> block, quarterly |-> NoBlock]
                   ELSE [kind |-> "map", yearly |-> NoBlock, quarterly |-> block]
    IN  CASE folder = "cashflow" ->
                [EmptyPayload EXCEPT !.info = AcmeInfo, !.cashflow = section]
          [] folder = "incomestatement" ->
                [EmptyPayload EXCEPT !.info = AcmeInfo,
                                     !.incomestatement = section]
          [] OTHER ->
                [EmptyPayload EXCEPT !.info = AcmeInfo, !.balancesheet = section]

ItemsPayloads ==
    {ItemsPayload(folder_map[k].folder, freq, key, items, more) :
        k \in 1..3, freq \in Range(Freqs),
        key \in {_str_key(2023, 12, 31), NaT},
        items \in ItemLists, more \in BOOLEAN}

InitItems ==
    /\ pc = "call"
    /\ arg \in [symbol : {<<"A", "C", "M", "E">>}, payload : ItemsPayloads]
    /\ ret = [raised |-> FALSE, out |-> << >>]
    /\ DriverIdle

NextItems == CallNormalize

SpecItems == InitItems /\ [][NextItems]_vars

-----------------------------------------------------------------------------
(* clean_text on every short string, alone and as the text fields of a      *)
(* profile. Here arg is [text] and ret is [val, rec]: what clean_text       *)
(* returns and the record normalize_summary builds from an info mapping     *)
(* whose name, sector and city are that text.                               *)

MaxTextLen == 3

TextChars == {" ", "\t", "a", "b"}

Texts == UNION {[1..n -> TextChars] : n \in 0..MaxTextLen}

TextInfo(t) ==
    [NoInfo EXCEPT !.kind = "map", !.longName = Str(t), !.sector = Str(t),
                   !.city = Str(t)]

InitText ==
    /\ pc = "call"
    /\ arg \in [text : Texts]
    /\ ret = [val |-> None, rec |-> << >>]
    /\ DriverIdle

\* clean_text(s)
CleanText ==
    /\ pc = "call"
    /\ ret' = [ret EXCEPT !.val = clean_text(Str(arg.text))]
    /\ pc' = "cleaned"
    /\ UNCHANGED <<arg, drv_vars>>

\* normalize_summary on a payload whose text fields hold s.
NormalizeText ==
    /\ pc = "cleaned"
    /\ ret' = [ret EXCEPT !.rec =
                  normalize_summary(Str(<<"A", "C", "M", "E">>),
                                    [EmptyPayload EXCEPT
                                        !.info = TextInfo(arg.text)],
                                    clock).rec]
    /\ pc' = "returned"
    /\ UNCHANGED <<arg, drv_vars>>

NextText == CleanText \/ NormalizeText

SpecText == InitText /\ [][NextText]_vars

-----------------------------------------------------------------------------
(* Financilas.py: ensure_financials_table, statement by statement.          *)
(* arg gives, for each of the five statements, the errno of the             *)
(* mysql.connector.Error the server answers with, 0 for success; attempted  *)
(* is the sequence of statements issued; ret is [raised, errno]: the error  *)
(* that left the function.                                                  *)

\* errno 1170: BLOB/TEXT column used in key specification without a length.
BlobInKey == 1170

\* 1091: can't DROP, check that column/key exists; 1068: multiple primary
\* key defined; 2013: lost connection to the server.
ErrNos == {0, BlobInKey, 1091, 1068, 2013}

schema_unchanged == <<driver, cadence, staging, symbols, i, total_rows, errors,
                      work, durable, rows, outcome, commitlog, rollbacks,
                      failed_rows, faults, clock, run, first_run>>

InitSchema ==
    /\ pc = "create"
    /\ arg \in [create : ErrNos, drop_pk : ErrNos, modify_metric : ErrNos,
                modify_stock : ErrNos, add_pk : ErrNos]
    /\ ret = [raised |-> FALSE, errno |-> 0]
    /\ DriverIdle

\* A variant that repairs after every failure of the creation.
CreateTable_anyerror ==
    /\ pc = "create"
    /\ attempted' = Append(attempted, "create")
    /\ pc' = IF arg.create = 0 THEN "ensured" ELSE "drop_pk"
    /\ UNCHANGED <<arg, ret, schema_unchanged>>

\* cur.execute(SCHEMA_CREATE): return on success; an error other than 1170
\* is raised again; 1170 falls through to the repair path.
CreateTable ==
    /\ pc = "create"
    /\ attempted' = Append(attempted, "create")
    /\ IF arg.create = 0
       THEN pc' = "ensured" /\ UNCHANGED ret
       ELSE IF arg.create # BlobInKey
       THEN pc' = "raised" /\ ret' = [raised |-> TRUE, errno |-> arg.create]
       ELSE pc' = "drop_pk" /\ UNCHANGED ret
    /\ UNCHANGED <<arg, schema_unchanged>>

\* ALTER TABLE financials DROP PRIMARY KEY, errors passed over.
DropPrimaryKey ==
    /\ pc = "drop_pk"
    /\ attempted' = Append(attempted, "drop_pk")
    /\ pc' = "modify_metric"
    /\ UNCHANGED <<arg, ret, schema_unchanged>>

\* A variant whose second ALTER is not guarded.
ModifyMetric_fatal ==
    /\ pc = "modify_metric"
    /\ attempted' = Append(attempted, "modify_metric")
    /\ IF arg.modify_metric = 0
       THEN pc' = "modify_stock" /\ UNCHANGED ret
       ELSE pc' = "raised" /\ ret' = [raised |-> TRUE,
                                      errno |-> arg.modify_metric]
    /\ UNCHANGED <<arg, schema_unchanged>>

\* ALTER TABLE financials MODIFY COLUMN metric VARCHAR(191) NOT NULL,
\* errors passed over.
ModifyMetric ==
    /\ pc = "modify_metric"
    /\ attempted' = Append(attempted, "modify_metric")
    /\ pc' = "modify_stock"
    /\ UNCHANGED <<arg, ret, schema_unchanged>>

\* ALTER TABLE financials MODIFY COLUMN stock VARCHAR(32) NOT NULL, errors
\* passed over.
ModifyStock ==
    /\ pc = "modify_stock"
    /\ attempted' = Append(attempted, "modify_stock")
    /\ pc' = "add_pk"
    /\ UNCHANGED <<arg, ret, schema_unchanged>>

\* ALTER TABLE financials ADD PRIMARY KEY (stock, statement_type, metric,
\* date), outside any try: its error leaves the function.
AddPrimaryKey ==
    /\ pc = "add_pk"
    /\ attempted' = Append(attempted, "add_pk")
    /\ IF arg.add_pk = 0
       THEN pc' = "ensured" /\ UNCHANGED ret
       ELSE pc' = "raised" /\ ret' = [raised |-> TRUE, errno |-> arg.add_pk]
    /\ UNCHANGED <<arg, schema_unchanged>>

NextSchema ==
    \/ CreateTable
    \/ DropPrimaryKey
    \/ ModifyMetric
    \/ ModifyStock
    \/ AddPrimaryKey

SpecSchema == InitSchema /\ [][NextSchema]_vars

-----------------------------------------------------------------------------
(* Properties of the statement normalizer (under SpecNorm).                 *)

\* The date-groups of one periodicity that the loops reach, with the
\* statement type of their section.
GroupsOf(payload, freq) ==
    UNION {LET section == SectionOf(payload, folder_map[k].folder)
               block == BlockOf(section, freq)
           IN  IF section.kind = "map" /\ block.kind = "map"
               THEN {[stype |-> folder_map[k].stype, g |-> g] :
                        g \in Range(block.groups)}
               ELSE {} : k \in 1..3}

\* The metric names of a date-group that yield a record.
Facts(g) ==
    IF g.metrics.kind = "map"
    THEN {it.metric : it \in {x \in Range(g.metrics.items) : Survives(x)}}
    ELSE {}

Returned == pc = "returned" /\ ~ret.raised

DateOf(d) == [year |-> d.year, month |-> d.month, day |-> d.day]

\* C5 (as claimed): no two records returned by normalize_financials share
\* the key (company_id, statement_type, metric_name, statement_date).
C5_KeyUnique ==
    Returned =>
        \A a, b \in 1..Len(ret.out) :
            a # b => FinKey(ret.out[a]) # FinKey(ret.out[b])

\* Every surviving metric of every parsed quarterly date-group has a record
\* whose period is in `quarters` and equals 1 + (m - 1) \div 3.
QuarterlyPeriods(quarters) ==
    \A e \in GroupsOf(arg.payload, "quarterly") :
        LET d == ParseDateKey(e.g.key)
        IN  d.ok =>
              \A metric \in Facts(e.g) :
                 \E k \in 1..Len(ret.out) :
                    /\ FinKey(ret.out[k]) =
                          <<arg.symbol, e.stype, metric, DateOf(d)>>
                    /\ ret.out[k].period = 1 + (d.month - 1) \div 3
                    /\ ret.out[k].period \in quarters

\* C6 (as claimed): a record of a quarterly date-group with month m has
\* period 1 + (m-1)//3, always in {1,2,3}; 4 is produced only for annual
\* date-groups.
C6_QuarterOneToThree ==
    Returned =>
        /\ QuarterlyPeriods({1, 2, 3})
        /\ \A k \in 1..Len(ret.out) :
              ret.out[k].period = 4 =>
                 \E e \in GroupsOf(arg.payload, "yearly") :
                    /\ ParseDateKey(e.g.key).ok
                    /\ ret.out[k].metric \in Facts(e.g)
                    /\ FinKey(ret.out[k]) =
                          <<arg.symbol, e.stype, ret.out[k].metric,
                            DateOf(ParseDateKey(e.g.key))>>

\* C6 (amended): a record of a quarterly date-group with month m has period
\* 1 + (m-1)//3, in {1,2,3,4}; every record's period is 4 or the quarter of
\* its own date, and a period other than 4 comes from a quarterly date-group
\* of months 1..9.
C6_QuarterFromMonth ==
    Returned =>
        /\ QuarterlyPeriods({1, 2, 3, 4})
        /\ \A k \in 1..Len(ret.out) :
              /\ ret.out[k].period \in 1..4
              /\ ret.out[k].period # 4 =>
                    /\ ret.out[k].period = 1 + (ret.out[k].date.month - 1) \div 3
                    /\ ret.out[k].date.month <= 9

\* C6 witness: a quarterly December date-group, in a payload with no yearly
\* date-group at all, has yielded a record of period 4.
C6_Witness ==
    /\ Returned
    /\ GroupsOf(arg.payload, "yearly") = {}
    /\ \E k \in 1..Len(ret.out) :
          ret.out[k].period = 4 /\ ret.out[k].date.month = 12

-----------------------------------------------------------------------------
(* Properties of the batch drivers (under Spec and LiveSpec).               *)

Failed(what) == what \in {"load_error", "normalize_error", "write_error"}

\* Number of finished iterations that ended in the except clause.
FailedCount == Cardinality({k \in 1..Len(outcome) : Failed(outcome[k])})

\* C1: every identifier is attempted exactly once, in list order; each
\* iteration that raises adds exactly one to the error counter and the loop
\* goes on, so a run that has left the loop has attempted the whole list.
C1_EveryIdAttempted ==
    pc \in {"loop", "done"} =>
        /\ attempted = SubSeq(symbols, 1, i)
        /\ Len(outcome) = i
        /\ errors = FailedCount
        /\ pc = "done" => attempted = symbols

\* C1 witness: a finished run over three identifiers in which the first and
\* the last company raised and the one between them did not.
C1_Witness ==
    /\ pc = "done" /\ Len(symbols) = 3 /\ errors = 2
    /\ Failed(outcome[1]) /\ ~Failed(outcome[2]) /\ Failed(outcome[3])

\* C2 (as claimed): once the loop has finished position k, a multiple of the
\* cadence, a commit has been issued at position k, whatever happened to the
\* company at k.
C2_CommitAtEveryMultiple ==
    pc \in {"loop", "done"} =>
        \A k \in 1..i : k % cadence = 0 => k \in Range(commitlog)

\* C3: a run that enters the loop reaches the final commit, and when it has
\* ended nothing the open transaction holds is left uncommitted.
C3_FinalCommit ==
    /\ [](pc = "done" =>
            /\ durable = work
            /\ commitlog # << >> /\ commitlog[Len(commitlog)] = 0)
    /\ (pc = "loop") ~> (pc = "done")

\* C3 witness: a finished run whose length is no multiple of the cadence,
\* with a failed company, whose upserted rows are durable.
C3_Witness ==
    /\ pc = "done" /\ Len(symbols) % cadence # 0 /\ errors > 0
    /\ durable # {} /\ durable = work

\* C4 (as claimed): a failed store write is rolled back before the handler
\* runs, and no row its batch applied is ever made durable.
C4_FailedWriteRolledBack ==
    /\ (\E k \in 1..Len(outcome) : outcome[k] = "write_error") => rollbacks > 0
    /\ failed_rows \cap durable = {}

KeyOf(drv, r) == IF drv = "fin" THEN FinKey(r) ELSE SumKey(r)

BatchKeys(drv, batch) == {KeyOf(drv, batch[k]) : k \in 1..Len(batch)}

\* The last record of the batch that has key.
LastWithKey(drv, batch, key) ==
    batch[CHOOSE k \in 1..Len(batch) :
            /\ KeyOf(drv, batch[k]) = key
            /\ \A m \in (k + 1)..Len(batch) : KeyOf(drv, batch[m]) # key]

OneRowPerKey(T) ==
    \A a, b \in T : KeyOf(driver, a) = KeyOf(driver, b) => a = b

\* What a completed upsert of batch does to table T, giving T2.
UpsertEffect(T, T2, batch) ==
    /\ \A x \in T : KeyOf(driver, x) \notin BatchKeys(driver, batch) => x \in T2
    /\ \A y \in T2 : KeyOf(driver, y) \notin BatchKeys(driver, batch) => y \in T
    /\ \A key \in BatchKeys(driver, batch) :
          LastWithKey(driver, batch, key) \in T2
    /\ Cardinality(T2) =
          Cardinality(T) + Cardinality(BatchKeys(driver, batch)
                                         \ {KeyOf(driver, x) : x \in T})

\* C9: each table holds at most one row per natural key; a completed upsert
\* leaves every row whose key is not in the batch as it was, adds one row per
\* new key, and leaves for each key of the batch exactly the last record of
\* the batch with that key (key columns as they were, every other column
\* the record's).
C9_UpsertOverwrites ==
    /\ [](OneRowPerKey(work) /\ OneRowPerKey(durable))
    /\ [][(Len(outcome') = Len(outcome) + 1 /\ outcome'[Len(outcome')] = "ok")
             => UpsertEffect(work, work', rows')]_vars

\* C9 witness: a batch with two different records of one key has been
\* upserted and the table holds the later one.
C9_Witness ==
    /\ outcome # << >> /\ outcome[Len(outcome)] = "ok"
    /\ \E a, b \in 1..Len(rows) :
          /\ a < b
          /\ KeyOf(driver, rows[a]) = KeyOf(driver, rows[b])
          /\ rows[a] # rows[b]
          /\ rows[b] \in work /\ rows[a] \notin work

-----------------------------------------------------------------------------
(* Properties of a second run on the same staging store (under SpecRerun).  *)

\* The second run has ended and the database failed no statement of either
\* run.
SecondRunDone == run = 2 /\ pc \in {"done", "empty"} /\ faults = 0

\* C7 (as claimed): after the second run both tables are, in every column of
\* every row, what the first run left.
C7_RerunIdentical == SecondRunDone => durable = first_run.table

\* A row without its timestamp (financials rows carry none).
Untimed(r) == IF driver = "sum" THEN [r EXCEPT !.updated_at = 0] ELSE r

\* C7 (amended): after the second run both tables hold the rows the first
\* run left, identical in every column but summary.updated_at, and every
\* summary row carries a second of the second run.
C7_RerunIdenticalButTime ==
    SecondRunDone =>
        /\ {Untimed(r) : r \in durable} = {Untimed(r) : r \in first_run.table}
        /\ Cardinality(durable) = Cardinality(first_run.table)
        /\ driver = "sum" =>
              \A r \in durable :
                  /\ r.updated_at >= FormatNow(first_run.at)
                  /\ r.updated_at <= FormatNow(clock)

\* C7 witness: a second run has ended a second or more after the first one
\* and the summary table, one row at least, is no longer what it was.
C7_Witness ==
    /\ SecondRunDone /\ driver = "sum"
    /\ durable # {} /\ durable # first_run.table

\* The second run has just upserted a company.
Reprocessed ==
    /\ driver = "sum" /\ run = 2 /\ pc = "loop"
    /\ outcome # << >> /\ outcome[Len(outcome)] = "ok"

\* The stored row of a key.
Stored(T, key) == CHOOSE r \in T : SumKey(r) = key

\* C10 (as claimed): the updated_at that a re-processing stores is strictly
\* greater than the one the previous processing stored for the company.
C10_StrictlyAdvances ==
    Reprocessed =>
        \A k \in 1..Len(rows) : \A old \in first_run.table :
            SumKey(old) = SumKey(rows[k]) =>
                Stored(work, SumKey(old)).updated_at > old.updated_at

\* C10 (amended): the updated_at that a re-processing stores is the second
\* of that processing, which is never before the one stored by the previous
\* processing and equals it when both fall into one second.
C10_NeverGoesBack ==
    Reprocessed =>
        \A k \in 1..Len(rows) : \A old \in first_run.table :
            SumKey(old) = SumKey(rows[k]) =>
                /\ Stored(work, SumKey(old)).updated_at = rows[k].updated_at
                /\ rows[k].updated_at >= FormatNow(first_run.at)
                /\ rows[k].updated_at <= FormatNow(clock)
                /\ old.updated_at <= FormatNow(first_run.at)

\* C10 witness: a company is re-processed a second or more after its first
\* processing and its row carries the later second.
C10_Witness ==
    /\ Reprocessed
    /\ \E old \in first_run.table :
          /\ SumKey(old) = SumKey(rows[1])
          /\ Stored(work, SumKey(old)).updated_at > old.updated_at

-----------------------------------------------------------------------------
(* Properties of two calls of a normalizer (under SpecTwice).               *)

\* What a call returned (a call that raised returned nothing).
ResultOf(v) == IF v.raised THEN [raised |-> TRUE] ELSE v

Timeless(v) ==
    IF v.raised THEN [raised |-> TRUE]
    ELSE [raised |-> FALSE, rec |-> [v.rec EXCEPT !.updated_at = 0]]

-----------------------------------------------------------------------------
(* Properties of the profile normalizer (under SpecSum).                    *)

\* The cleaned structured value of each location field of the payload's
\* info mapping.
StructuredLocation(info) ==
    [city |-> clean_text(info.city),
     state |-> clean_text(PyOr(info.state, info.province)),
     country |-> clean_text(info.country)]

\* What the headquarters phrase of the record's summary gives for each
\* location field.
TextLocation(rec) == extract_from_summary(rec.long_summary)

LocationFields == {"city", "state", "country"}

\* C11: a location field whose structured value is non-empty after cleaning
\* is returned as that cleaned value whatever the summary says; the value
\* from the summary is returned only for a field whose structured value is
\* missing or empty.
C11_StructuredLocationKept ==
    (pc = "returned" /\ ~ret.raised) =>
        \A f \in LocationFields :
            LET sv == StructuredLocation(arg.payload.info)[f]
            IN  /\ Truthy(sv) => ret.rec[f] = sv
                /\ ~Truthy(sv) => ret.rec[f] = TextLocation(ret.rec)[f]

\* C11 witness: the summary names a city and a state, both different from
\* what the info mapping holds; the structured city is returned, and the
\* state, which the info mapping lacks, comes from the summary.
C11_Witness ==
    /\ pc = "returned" /\ ~ret.raised
    /\ Truthy(StructuredLocation(arg.payload.info).city)
    /\ Truthy(TextLocation(ret.rec).city)
    /\ TextLocation(ret.rec).city # StructuredLocation(arg.payload.info).city
    /\ ret.rec.city = StructuredLocation(arg.payload.info).city
    /\ ~Truthy(StructuredLocation(arg.payload.info).state)
    /\ Truthy(ret.rec.state)

-----------------------------------------------------------------------------
(* Properties of parse_json_value (under SpecParse).                        *)

\* C12 (as claimed): whatever the raw value, parse_json_value returns a
\* mapping, and normalizing it raises nothing; a value that holds no mapping
\* gives the empty mapping and a company with zero records.
C12_AlwaysMapping ==
    /\ pc \in {"parsed", "returned"} => ret.obj.kind = "map"
    /\ pc = "returned" =>
          /\ ~ret.nz.raised
          /\ ret.obj = EmptyPayload => ret.nz.skip \/ ret.nz.batch = << >>

-----------------------------------------------------------------------------
(* Properties of clean_json (under SpecClean).                              *)

\* C13 (as claimed): clean_json is idempotent, clean_json(clean_json(x)) =
\* clean_json(x) for every value x.
C13_Idempotent == pc = "returned" => ret[2] = ret[1]

-----------------------------------------------------------------------------
(* Properties of the profile driver's missing-identifier skip (under Spec). *)

\* The staged row of position k loads, normalizes without an exception, and
\* neither its identifier column nor info.symbol / info.ticker gives an
\* identifier.
NoUsableId(k) ==
    /\ driver = "sum"
    /\ \E row \in {load_one_row(staging, symbols[k])} :
       \E info \in {InfoOf(parse_json_value(row.j))} :
          /\ row.found
          /\ ~normalize_summary(Str(row.symbol), parse_json_value(row.j), 0).raised
          /\ ~Truthy(Str(row.symbol))
          /\ ~Truthy(info.symbol) /\ ~Truthy(info.ticker)

\* The step that finishes an iteration as a skip.
SkipStep ==
    /\ Len(outcome') = Len(outcome) + 1
    /\ outcome'[Len(outcome')] = "skipped"

\* C14: a company of the profile pipeline without a usable identifier is
\* skipped: its iteration writes no row, leaves the rows-written total and
\* the error counter as they were, and the loop goes on; the summary table
\* never holds a row without an identifier.
C14_MissingIdSkipped ==
    /\ [](\A k \in 1..Len(outcome) :
             NoUsableId(k) => outcome[k] \in {"skipped", "load_error"})
    /\ [](driver = "sum" => \A r \in work \cup durable : Truthy(r.stock))
    /\ [][SkipStep =>
             /\ work' = work /\ durable' = durable
             /\ total_rows' = total_rows /\ errors' = errors
             /\ i' = i + 1 /\ pc' = "loop"]_vars

\* C14 witness: the first company was skipped for its missing identifier,
\* the one after it was upserted, and nothing was counted as an error.
C14_Witness ==
    /\ Len(outcome) >= 2 /\ NoUsableId(1)
    /\ outcome[1] = "skipped" /\ outcome[2] = "ok"
    /\ errors = 0 /\ total_rows = 1 /\ Cardinality(work) = 1

-----------------------------------------------------------------------------
(* Properties of configuration discovery (under SpecConfig).                *)

HasAny(cands, cols) == \E k \in 1..Len(cands) : cands[k] \in cols

\* The run ended with the configuration error and processed nothing.
FailedBeforeProcessing ==
    /\ pc = "config_error"
    /\ symbols = << >> /\ i = 0 /\ attempted = << >> /\ outcome = << >>
    /\ work = {} /\ durable = {} /\ total_rows = 0

\* C15 (as claimed): in either pipeline, when the identifier column or the
\* payload column is not among the conventional names, the run fails with
\* the configuration error before any company is processed.
C15_MissingColumnFatal ==
    (/\ pc # "discover"
     /\ \/ ~HasAny(SymbolColumns, arg.cols)
        \/ ~HasAny(JsonColumns(driver), arg.cols))
        => FailedBeforeProcessing

\* C15 (amended): the run fails with the configuration error, before any
\* company is processed, when the payload column is missing (both
\* pipelines) or the identifier column is missing in the statement
\* pipeline; in the profile pipeline a missing identifier column is no
\* error, the run goes over the rows by offset; with both columns present
\* there is no configuration error.
C15_RequiredColumnFatal ==
    pc # "discover" =>
        IF \/ ~HasAny(JsonColumns(driver), arg.cols)
           \/ (driver = "fin" /\ ~HasAny(SymbolColumns, arg.cols))
        THEN FailedBeforeProcessing
        ELSE IF ~HasAny(SymbolColumns, arg.cols)
        THEN pc \in {"start_offset", "loop_offset", "empty", "done"}
        ELSE pc \in {"start", "loop", "empty", "done"}

\* C15 witness: a non-empty source table without a payload column: the run
\* has ended with the configuration error and nothing was attempted.
C15_Witness ==
    /\ FailedBeforeProcessing /\ staging # << >>
    /\ ~HasAny(JsonColumns(driver), arg.cols)
    /\ HasAny(SymbolColumns, arg.cols)

-----------------------------------------------------------------------------
(* The end-of-run summary (under LiveSpec).                                 *)

\* C16 (as claimed): every run past configuration discovery eventually
\* prints the end-of-run summary, whatever the identifier list is, the
\* empty list included.
C16_SummaryAlwaysReached == <>(pc = "done")

\* C16 (amended): every run past configuration discovery ends; a run over
\* a non-empty identifier list ends with the end-of-run summary, reached
\* after every identifier was attempted and with the error count equal to
\* the number of companies that failed, whatever subset failed; a run over
\* the empty list ends at the early return, without the summary.
C16_SummaryUnlessEmpty ==
    /\ <>(pc \in {"empty", "done"})
    /\ [](pc = "empty" => staging = << >> /\ symbols = << >>)
    /\ [](pc = "done" =>
            /\ symbols # << >> /\ Len(outcome) = Len(symbols)
            /\ errors = FailedCount)
    /\ [](symbols # << >> => <>(pc = "done"))

\* C16 witness: the summary is reached by a run in which every company of
\* a list of two or more failed.
C16_Witness ==
    /\ pc = "done" /\ Len(symbols) >= 2
    /\ \A k \in 1..Len(outcome) : Failed(outcome[k])

-----------------------------------------------------------------------------
(* Termination in the loop and the run from scratch after it (SpecKill).    *)

\* The run after the termination has ended and none of its statements failed.
RerunComplete ==
    /\ run = 2 /\ pc \in {"done", "empty"}
    /\ \A k \in 1..Len(outcome) : outcome[k] \notin {"load_error", "write_error"}

\* C17: when the statement pipeline is terminated in the company loop the
\* table holds exactly what the last commit made durable (a write becomes
\* durable only in a step that commits, and the termination keeps the
\* durable state and drops everything after it); a complete run from
\* scratch after it ends in the table of a single uninterrupted run over
\* the same staging store.
C17_KillThenRerunConverges ==
    /\ [](pc = "killed" => work = durable)
    /\ [][/\ durable' # durable =>
                /\ Len(commitlog') = Len(commitlog) + 1
                /\ durable' = work'
          /\ Kill => durable' = durable]_vars
    /\ [](driver = "fin" /\ RerunComplete => durable = Uninterrupted(staging))

\* C17 witness: the first run was terminated after a commit, the run from
\* scratch has ended and has added rows to what the terminated run left.
C17_Witness ==
    /\ driver = "fin" /\ RerunComplete /\ pc = "done"
    /\ first_run.table # {} /\ first_run.table # durable

-----------------------------------------------------------------------------
(* Properties of the staging loader (under SpecLoad).                       *)

InLoad == pc \in {"load_loop", "load_done"}

\* The symbols of the rows this run has committed.
CommittedNow == {r.symbol : r \in {o \in durable : o.run = run}}

Listed == {rows[k] : k \in 1..Len(rows)}

\* The symbols attempted in this run whose iteration ended with one of whats.
Ended(whats) == {attempted[k] : k \in {h \in 1..Len(outcome) : outcome[h] \in whats}}

\* Between two symbols nothing is pending, loaded_ok lists exactly the
\* symbols this run committed, and the symbols that ended with one of whats
\* are not listed and have no row of this run.
LoadedExactly(whats) ==
    InLoad =>
        /\ work = durable
        /\ Listed = CommittedNow
        /\ Len(commitlog) = Len(rows)
        /\ Ended(whats) \cap (Listed \cup CommittedNow) = {}

\* C18 (as claimed): each insert is committed on its own, loaded_ok holds
\* exactly the symbols of this run whose insert was committed, and a symbol
\* whose fetch (the info request included), serialisation or insert failed
\* is not in loaded_ok and has no staging row of this run.
C18_FailedNeverLoaded ==
    LoadedExactly({"info_error", "fetch_error", "dumps_error", "insert_error",
                   "commit_error"})

\* C18 (amended): each insert is committed on its own before the next symbol
\* is fetched; loaded_ok holds exactly the symbols of this run whose insert
\* was committed; a symbol for which fetch_for_symbol, the serialisation,
\* the INSERT or the commit raised is not in loaded_ok and has no staging
\* row of this run, while a symbol whose info request failed inside
\* fetch_for_symbol is inserted with the error recorded in its payload and
\* is in loaded_ok; no step of the run removes a committed row.
C18_RaisedNeverLoaded ==
    /\ [](LoadedExactly({"fetch_error", "dumps_error", "insert_error",
                         "commit_error"}))
    /\ [](InLoad => Ended({"ok", "info_error"}) = Listed)
    /\ [](InLoad =>
            \A r \in durable :
                r.run = run /\ r.symbol \in Ended({"info_error"})
                    => r.payload = "info_error")
    /\ [][durable \subseteq durable']_vars

\* C18 witness: in one run a symbol was committed and listed, and the
\* symbol after it failed at the commit and left no row.
C18_Witness ==
    /\ pc = "load_done" /\ outcome = <<"ok", "commit_error">>
    /\ Len(rows) = 1 /\ Cardinality(durable) = 1 /\ rollbacks = 1

\* C19 (as claimed): a symbol that has a staging row when a run starts is
\* not fetched or inserted again in that run, so the staging table never
\* holds two rows of one symbol, in runs whose query for the existing
\* symbols fails as in every other run.
C19_NeverLoadedTwice ==
    /\ InLoad =>
          \A k \in 1..Len(attempted) :
              ~\E r \in durable : r.symbol = attempted[k] /\ r.run < run
    /\ \A r1 \in durable, r2 \in durable : r1.symbol = r2.symbol => r1 = r2

-----------------------------------------------------------------------------
(* Local recovery in the statement normalizer (under SpecNorm).             *)

\* The payload is well formed above its date-groups: every statement block
\* and every periodicity block is a mapping or absent.
WellFormedBlocks(payload) ==
    /\ ~RaisesAttr(payload) /\ ~RaisesAttr(payload.info)
    /\ \A k \in 1..3 :
          LET section == SectionOf(payload, folder_map[k].folder)
          IN  /\ ~RaisesAttr(section)
              /\ section.kind = "map" =>
                    /\ ~RaisesAttr(section.yearly)
                    /\ ~RaisesAttr(section.quarterly)

\* The date-groups the loops reach, of both periodicities.
AllGroups(payload) ==
    {[freq |-> "yearly", stype |-> e.stype, g |-> e.g] :
        e \in GroupsOf(payload, "yearly")} \cup
    {[freq |-> "quarterly", stype |-> e.stype, g |-> e.g] :
        e \in GroupsOf(payload, "quarterly")}

\* A date-group with a key that parses and a mapping (or nothing) as value.
WellFormedGroup(g) == ParseDateKey(g.key).ok /\ g.metrics.kind \in {"map", "null"}

\* C20 (as claimed): on a payload whose blocks are well formed,
\* normalize_financials raises nothing whatever date keys fail to parse and
\* whatever date-groups hold a value that is no mapping; every surviving
\* metric of every well-formed date-group has its record, and every record
\* comes from a well-formed date-group.
C20_MalformedSkippedLocally ==
    (pc = "returned" /\ WellFormedBlocks(arg.payload)) =>
        /\ ~ret.raised
        /\ \A e \in AllGroups(arg.payload) :
              WellFormedGroup(e.g) =>
                 \A metric \in Facts(e.g) :
                    \E k \in 1..Len(ret.out) :
                       FinKey(ret.out[k]) =
                          <<arg.symbol, e.stype, metric,
                            DateOf(ParseDateKey(e.g.key))>>
        /\ \A k \in 1..Len(ret.out) :
              \E e \in AllGroups(arg.payload) :
                 /\ WellFormedGroup(e.g)
                 /\ ret.out[k].statement_type = e.stype
                 /\ ret.out[k].metric \in Facts(e.g)
                 /\ ret.out[k].date = DateOf(ParseDateKey(e.g.key))

-----------------------------------------------------------------------------
(* One record per surviving metric/value pair (under SpecItems).            *)

\* The date-groups whose key parses and whose value is a mapping.
ParsedGroups == {e \in AllGroups(arg.payload) :
                    ParseDateKey(e.g.key).ok /\ e.g.metrics.kind = "map"}

\* The metric/value pairs of the parsed date-groups, as <<group, position>>.
Pairs == {x \in ParsedGroups \X (1..MaxPairs) : x[2] <= Len(x[1].g.metrics.items)}

PairItem(x) == x[1].g.metrics.items[x[2]]

\* The positions of ret.out that hold a record of the pair x.
RecordsOf(x) ==
    {k \in 1..Len(ret.out) :
        /\ ret.out[k].statement_type = x[1].stype
        /\ ret.out[k].metric = PairItem(x).metric
        /\ ret.out[k].date = DateOf(ParseDateKey(x[1].g.key))
        /\ ret.out[k].period = PeriodOf(x[1].freq, ParseDateKey(x[1].g.key))}

\* C21: a call that returns emits, for each metric/value pair of a parsed
\* date-group, no record when the name is empty or the value is a mapping or
\* a list, and otherwise exactly one record, whose value is null for a NaN
\* or infinite float and the value itself for everything else; the number
\* of records returned is the number of surviving pairs.
C21_OneRecordPerSurvivingPair ==
    Returned =>
        /\ \A x \in Pairs :
              LET it == PairItem(x)
              IN  IF it.metric = "" \/ it.val.t \in {"dict", "list"}
                  THEN RecordsOf(x) = {}
                  ELSE /\ Cardinality(RecordsOf(x)) = 1
                       /\ \A k \in RecordsOf(x) :
                             ret.out[k].value =
                                IF it.val.t \in {"nan", "inf"} THEN NullVal
                                ELSE it.val
        /\ Len(ret.out) =
              Cardinality({x \in Pairs :
                              /\ PairItem(x).metric # ""
                              /\ PairItem(x).val.t \notin {"dict", "list"}})

\* C21 witness: a call returned one record, with value null, for a
\* date-group of two pairs: an infinite float and a nested list.
C21_Witness ==
    /\ Returned /\ Len(ret.out) = 1 /\ ret.out[1].value = NullVal
    /\ \E x \in Pairs, y \in Pairs :
          /\ PairItem(x).val.t = "inf" /\ PairItem(y).val.t = "list"
          /\ PairItem(y).metric # ""

-----------------------------------------------------------------------------
(* clean_json of a sequence (under SpecClean).                              *)

\* C22 (as claimed): clean_json of a list, tuple or set, of any length and
\* whatever its elements, is a sequence with one entry per element, each
\* entry clean_json of that element; never null, never a scalar.
C22_SequenceKept ==
    (pc \in {"again", "returned"} /\ arg.obj.t \in {"list", "tuple", "set"}) =>
        /\ ret[1].t = "list"
        /\ Len(ret[1].items) = Len(arg.obj.items)
        /\ \A k \in 1..Len(arg.obj.items) :
              ret[1].items[k] = clean_json(arg.obj.items[k])

-----------------------------------------------------------------------------
(* clean_text (under SpecText).                                             *)

\* A non-empty text without leading or trailing whitespace, whose only
\* whitespace is single spaces, of at most TextLimit characters.
CleanString(t) ==
    /\ t # << >> /\ Len(t) <= TextLimit
    /\ ~IsSpace(t[1]) /\ ~IsSpace(t[Len(t)])
    /\ \A k \in 1..Len(t) : IsSpace(t[k]) => t[k] = " "
    /\ \A k \in 1..(Len(t) - 1) : ~(IsSpace(t[k]) /\ IsSpace(t[k + 1]))

\* C23 (as claimed): clean_text of a string is null or a clean non-empty
\* string; a string that is empty after cleaning, whitespace-only strings
\* included, gives null, and no text field of a profile record is the empty
\* string.
C23_CleanOrNull ==
    /\ pc \in {"cleaned", "returned"} =>
          /\ ret.val = None \/ (ret.val.some /\ CleanString(ret.val.s))
          /\ (\A k \in 1..Len(arg.text) : IsSpace(arg.text[k])) => ret.val = None
    /\ pc = "returned" =>
          /\ ret.rec.yf_name # Str(<< >>)
          /\ ret.rec.sector # Str(<< >>)
          /\ ret.rec.city # Str(<< >>)

-----------------------------------------------------------------------------
(* Properties of ensure_financials_table (under SpecSchema).                *)

\* The function has returned or raised.
SchemaLeft == pc \in {"ensured", "raised"}

\* C24: the repair path is entered only when the creation fails with errno
\* 1170: after a successful creation the function has returned with no
\* ALTER issued, after any other error that error has left the function
\* with no ALTER issued, and whenever an ALTER was issued the creation had
\* failed with 1170.
C24_RepairOnlyOn1170 ==
    /\ (pc # "create" /\ arg.create = 0) =>
          pc = "ensured" /\ ~ret.raised /\ attempted = <<"create">>
    /\ (pc # "create" /\ arg.create \notin {0, BlobInKey}) =>
          /\ pc = "raised" /\ ret = [raised |-> TRUE, errno |-> arg.create]
          /\ attempted = <<"create">>
    /\ Len(attempted) > 1 => arg.create = BlobInKey

\* C24 witness: the creation failed with an error other than 1170 and that
\* error has left the function.
C24_Witness ==
    /\ pc = "raised" /\ arg.create = 2013 /\ ret.errno = 2013
    /\ attempted = <<"create">>

RepairOrder == <<"create", "drop_pk", "modify_metric", "modify_stock", "add_pk">>

\* C25: the statements are issued in the fixed order drop primary key,
\* widen metric, widen stock, add primary key; on the repair path the
\* function is left only after all four were issued, whatever the first
\* three answered, and an error leaves it exactly when the last statement
\* failed, with that statement's error.
C25_RepairInOrder ==
    /\ attempted = SubSeq(RepairOrder, 1, Len(attempted))
    /\ (SchemaLeft /\ arg.create = BlobInKey) =>
          /\ attempted = RepairOrder
          /\ ret.raised <=> arg.add_pk # 0
          /\ ret.raised => ret.errno = arg.add_pk
          /\ pc = IF arg.add_pk = 0 THEN "ensured" ELSE "raised"

\* C25 witness: the first three statements of the repair all failed, the
\* primary key was added and the function returned.
C25_Witness ==
    /\ pc = "ensured" /\ arg.create = BlobInKey /\ attempted = RepairOrder
    /\ arg.drop_pk # 0 /\ arg.modify_metric # 0 /\ arg.modify_stock # 0

=============================================================================
